---- MODULE Spec2Model ----
(***************************************************************************)
(* The semantic middle-end of the SnuPL/1 compiler (src/src/ast.cpp): the  *)
(* AST node algebra, the type checker and the lowering of the AST to       *)
(* three-address code (TAC).                                               *)
(*                                                                         *)
(* An AST node is a record with a field "node" naming its class.  A        *)
(* statement list (the intrusive _next chain) is a sequence.  The token of *)
(* a node is identified with the node's position in the tree: a sequence   *)
(* of child numbers (0 = condition / lhs / left / operand / call,          *)
(* 1 = rhs / right, i = i-th argument or index, 100+i = i-th statement of  *)
(* a scope or of a then/while body, 200+i = i-th statement of an else      *)
(* body, 300+i = i-th nested scope).                                       *)
(***************************************************************************)
EXTENDS Integers, Sequences, FiniteSets, TLC

(***************************************************************************)
(* Types (CTypeManager).  NoType stands for the C++ NULL type pointer.     *)
(***************************************************************************)
NoType == [k |-> "NULL"]
TNull == [k |-> "null"]
TInt == [k |-> "int"]
TChar == [k |-> "char"]
TBool == [k |-> "bool"]
TPtr(base) == [k |-> "ptr", base |-> base]
TArr(n, inner) == [k |-> "arr", n |-> n, inner |-> inner]

IsPointer(t) == t.k = "ptr"
IsArray(t) == t.k = "arr"
IsScalar(t) == t.k \in {"int", "char", "bool", "ptr"}

RECURSIVE Match(_, _)
Match(a, b) ==
  IF a.k # b.k THEN FALSE
  ELSE CASE a.k = "ptr" -> Match(a.base, b.base)
         [] a.k = "arr" -> (a.n = b.n \/ a.n < 0 \/ b.n < 0) /\ Match(a.inner, b.inner)
         [] OTHER -> TRUE

RECURSIVE GetSize(_)
GetSize(t) ==
  CASE t.k = "int" -> 4
    [] t.k = "char" -> 1
    [] t.k = "bool" -> 1
    [] t.k = "ptr" -> 8
    [] t.k = "arr" -> t.n * GetSize(t.inner)
    [] OTHER -> 0

(***************************************************************************)
(* Symbols.  A node refers to its symbol by name; the symbol table of the  *)
(* compilation gives each name its data type (for a procedure: its return  *)
(* type) and each procedure its parameter types.                           *)
(***************************************************************************)
SymType(s) ==
  CASE s = "x" -> TInt
    [] s = "i" -> TInt
    [] s = "b" -> TBool
    [] s = "c" -> TChar
    [] s = "pb" -> TPtr(TBool)
    [] s = "ab" -> TArr(2, TBool)
    [] s = "a1" -> TArr(3, TInt)
    [] s = "a2" -> TArr(3, TArr(5, TInt))
    [] s = "a3" -> TArr(3, TArr(5, TArr(7, TChar)))
    [] s = "pa2" -> TPtr(TArr(3, TArr(5, TInt)))
    [] s = "s0" -> NoType
    [] s = "f" -> TBool
    [] s = "g" -> TInt
    [] s = "h" -> TNull
    [] s = "q" -> TNull
    [] s = "r" -> TInt
    [] s = "DIM" -> TInt
    [] s = "DOFS" -> TInt
    [] OTHER -> NoType

ProcParams(s) ==
  CASE s = "f" -> <<>>
    [] s = "g" -> <<TInt>>
    [] s = "h" -> <<TInt, TBool>>
    [] s = "q" -> <<NoType>>
    [] s = "r" -> <<TInt, TInt, TInt>>
    [] s = "DIM" -> <<TPtr(TNull), TInt>>
    [] s = "DOFS" -> <<TPtr(TNull)>>
    [] OTHER -> <<>>

(***************************************************************************)
(* A long long value (CAstConstant::_value): LL(q, r) is q * 2^31 + r with *)
(* 0 <= r < 2^31, so that values beyond the int range stay representable.  *)
(***************************************************************************)
LL(q, r) == [q |-> q, r |-> r]
LLOf(n) == IF n < 0 THEN LL(-1, (n + 2147483647) + 1) ELSE LL(0, n)
LLLess(a, b) == a.q < b.q \/ (a.q = b.q /\ a.r < b.r)
\* the cast (int)v: the low 32 bits, two's complement
ToInt(v) == IF v.q % 2 = 0 THEN v.r ELSE (v.r - 2147483647) - 1

(***************************************************************************)
(* AST nodes.                                                              *)
(***************************************************************************)
NoNode == [node |-> "NULL"]
Constant(t, v) == [node |-> "Constant", type |-> t, value |-> v]
Designator(s) == [node |-> "Designator", sym |-> s]
ArrayDesignator(s, idx, done) ==
  [node |-> "ArrayDesignator", sym |-> s, idx |-> idx, done |-> done]
BinaryOp(op, l, r) == [node |-> "BinaryOp", oper |-> op, left |-> l, right |-> r]
UnaryOp(op, e) == [node |-> "UnaryOp", oper |-> op, operand |-> e]
SpecialOp(op, e, t) == [node |-> "SpecialOp", oper |-> op, operand |-> e, type |-> t]
FunctionCall(s, args) == [node |-> "FunctionCall", sym |-> s, arg |-> args]

StatAssign(l, r) == [node |-> "StatAssign", lhs |-> l, rhs |-> r]
StatCall(c) == [node |-> "StatCall", call |-> c]
StatReturn(st, e) == [node |-> "StatReturn", scopeType |-> st, expr |-> e]
StatIf(c, ib, eb) == [node |-> "StatIf", cond |-> c, ifBody |-> ib, elseBody |-> eb]
StatWhile(c, b) == [node |-> "StatWhile", cond |-> c, body |-> b]
StatBreak == [node |-> "StatBreak"]
Scope(t, ss, ch) == [node |-> "Scope", type |-> t, statseq |-> ss, children |-> ch]

(***************************************************************************)
(* GetType                                                                 *)
(***************************************************************************)
RECURSIVE ArrayUnwrap(_, _)
ArrayUnwrap(ret, n) ==
  IF n = 0 THEN ret
  ELSE IF ~IsArray(ret) THEN NoType
  ELSE ArrayUnwrap(ret.inner, n - 1)

BinaryOpGetType(e) ==
  IF e.oper \in {"opAdd", "opMul", "opSub", "opDiv"} THEN TInt
  ELSE IF e.oper \in {"opAnd", "opOr", "opEqual", "opNotEqual", "opLessThan",
                      "opLessEqual", "opBiggerThan", "opBiggerEqual"} THEN TBool
  ELSE NoType

UnaryOpGetType(e) ==
  IF e.oper \in {"opNeg", "opPos"} THEN TInt
  ELSE IF e.oper = "opNot" THEN TBool
  ELSE NoType

\* a type that leaves the last index out
ArrayDesignatorGetTypeOneLess(e) ==
  LET dt == SymType(e.sym)
      ret == IF IsPointer(dt) THEN dt.base ELSE dt
  IN ArrayUnwrap(ret, Len(e.idx) - 1)

ArrayDesignatorGetType(e) ==
  LET dt == SymType(e.sym)
      ret == IF IsPointer(dt) THEN dt.base ELSE dt
  IN ArrayUnwrap(ret, Len(e.idx))

RECURSIVE GetType(_)
SpecialOpGetType(e) ==
  CASE e.oper = "opAddress" -> TPtr(GetType(e.operand))
    [] e.oper = "opDeref" ->
         LET pt == GetType(e.operand) IN IF IsPointer(pt) THEN pt.base ELSE NoType
    [] e.oper = "opCast" -> e.type
    [] OTHER -> NoType

GetType(e) ==
  CASE e.node = "Constant" -> e.type
    [] e.node = "Designator" -> SymType(e.sym)
    [] e.node = "ArrayDesignator" -> ArrayDesignatorGetType(e)
    [] e.node = "BinaryOp" -> BinaryOpGetType(e)
    [] e.node = "UnaryOp" -> UnaryOpGetType(e)
    [] e.node = "SpecialOp" -> SpecialOpGetType(e)
    [] e.node = "FunctionCall" -> SymType(e.sym)
    [] OTHER -> TNull

(***************************************************************************)
(* Type checking.  A check returns [ok, abort, w]: its boolean result,     *)
(* whether an assertion ended the process, and the writes it made to the   *)
(* out parameters (t, msg), in order.                                      *)
(***************************************************************************)
Pass == [ok |-> TRUE, abort |-> FALSE, w |-> <<>>]
Fail(t, msg) == [ok |-> FALSE, abort |-> FALSE, w |-> <<[t |-> t, msg |-> msg]>>]
Abort == [ok |-> FALSE, abort |-> TRUE, w |-> <<>>]
\* r, then what q does with the out parameters r has written
Then(r, q) == [q EXCEPT !.w = r.w \o q.w]
\* r, and q only when r has returned true
AndThen(r, q) == IF ~r.ok THEN r ELSE Then(r, q)

\* a check of a constant that keeps only the low 32 bits of the value
ConstantTypeCheckOfInt(e, p) ==
  IF Match(e.type, TInt) THEN Pass
  ELSE IF Match(e.type, TChar) THEN
    IF ToInt(e.value) < 0 \/ ToInt(e.value) > 255
    THEN Fail(p, "invalid value for character type constant") ELSE Pass
  ELSE IF Match(e.type, TBool) THEN
    IF ToInt(e.value) # 0 /\ ToInt(e.value) # 1
    THEN Fail(p, "invalid value for boolean type constant") ELSE Pass
  ELSE Fail(p, "invalid type for constant")

ConstantTypeCheck(e, p) ==
  IF Match(e.type, TInt) THEN
    IF LLLess(e.value, LL(-1, 0)) \/ LLLess(LL(0, 2147483647), e.value)
    THEN Fail(p, "invalid value for integer type constant") ELSE Pass
  ELSE IF Match(e.type, TChar) THEN
    IF LLLess(e.value, LLOf(0)) \/ LLLess(LLOf(255), e.value)
    THEN Fail(p, "invalid value for character type constant") ELSE Pass
  ELSE IF Match(e.type, TBool) THEN
    IF e.value # LLOf(0) /\ e.value # LLOf(1)
    THEN Fail(p, "invalid value for boolean type constant") ELSE Pass
  ELSE Fail(p, "invalid type for constant")

DesignatorTypeCheck(e, p) ==
  IF GetType(e) = NoType THEN Fail(p, "Invalid Type for the symbol") ELSE Pass

\* a rule that looks at the right operand first
BinaryOpTypeRuleRightFirst(e, p) ==
  LET Rule(leftType, rightType) ==
       CASE e.oper \in {"opAdd", "opMul", "opSub", "opDiv"} ->
            IF ~Match(rightType, TInt)
            THEN Fail(p \o <<1>>, "expected integer type expression in right operand")
            ELSE IF ~Match(leftType, TInt)
            THEN Fail(p \o <<0>>, "expected integer type expression in left operand")
            ELSE Pass
       [] e.oper \in {"opAnd", "opOr"} ->
            IF ~Match(rightType, TBool)
            THEN Fail(p \o <<1>>, "expected boolean type expression in right operand")
            ELSE IF ~Match(leftType, TBool)
            THEN Fail(p \o <<0>>, "expected boolean type expression in left operand")
            ELSE Pass
       [] OTHER ->
            IF ~Match(rightType, leftType)
            THEN Fail(p \o <<1>>, "different type between right and left operand")
            ELSE IF ~(Match(leftType, TChar) \/ Match(leftType, TInt)
                      \/ (e.oper \in {"opEqual", "opNotEqual"} /\ Match(leftType, TBool)))
            THEN Fail(p \o <<0>>, "unexpected type expression in left operand")
            ELSE Pass
  IN Rule(GetType(e.left), GetType(e.right))

BinaryOpTypeRule(e, p) ==
  LET Rule(leftType, rightType) ==
       CASE e.oper \in {"opAdd", "opMul", "opSub", "opDiv"} ->
            IF ~Match(leftType, TInt)
            THEN Fail(p \o <<0>>, "expected integer type expression in left operand")
            ELSE IF ~Match(rightType, TInt)
            THEN Fail(p \o <<1>>, "expected integer type expression in right operand")
            ELSE Pass
       [] e.oper \in {"opAnd", "opOr"} ->
            IF ~Match(leftType, TBool)
            THEN Fail(p \o <<0>>, "expected boolean type expression in left operand")
            ELSE IF ~Match(rightType, TBool)
            THEN Fail(p \o <<1>>, "expected boolean type expression in right operand")
            ELSE Pass
       [] e.oper \in {"opEqual", "opNotEqual"} ->
            IF ~(Match(leftType, TBool) \/ Match(leftType, TChar) \/ Match(leftType, TInt))
            THEN Fail(p \o <<0>>,
                      "expected boolean or character or integer type expression in left operand")
            ELSE IF ~Match(rightType, leftType)
            THEN Fail(p \o <<1>>, "different type between right and left operand")
            ELSE Pass
       [] e.oper \in {"opBiggerEqual", "opBiggerThan", "opLessEqual", "opLessThan"} ->
            IF ~(Match(leftType, TChar) \/ Match(leftType, TInt))
            THEN Fail(p \o <<0>>,
                      "expected character or integer type expression in left operand")
            ELSE IF ~Match(rightType, leftType)
            THEN Fail(p \o <<1>>, "different type between right and left operand")
            ELSE Pass
       [] OTHER -> [ok |-> FALSE, abort |-> FALSE, w |-> <<>>]
  IN Rule(GetType(e.left), GetType(e.right))

UnaryOpTypeRule(e, p) ==
  LET Rule(eType) ==
       CASE e.oper \in {"opNeg", "opPos"} ->
            IF ~Match(eType, TInt)
            THEN Fail(p \o <<0>>, "expected integer type expression in the operand")
            ELSE Pass
       [] e.oper = "opNot" ->
            IF ~Match(eType, TBool)
            THEN Fail(p \o <<0>>, "expected boolean type expression in the operand")
            ELSE Pass
       [] OTHER -> [ok |-> FALSE, abort |-> FALSE, w |-> <<>>]
  IN Rule(GetType(e.operand))

SpecialOpTypeRule(e, p) ==
  CASE e.oper = "opAddress" ->
         IF ~IsArray(GetType(e.operand))
         THEN Fail(p, "opAddress is only used on array type") ELSE Pass
    [] e.oper = "opDeref" ->
         IF ~IsPointer(GetType(e.operand))
         THEN Fail(p, "opDeref should be used on pointer type") ELSE Pass
    [] e.oper = "opCast" -> Fail(p, "opCast is never used")
    [] OTHER -> [ok |-> FALSE, abort |-> FALSE, w |-> <<>>]

RECURSIVE ExprTypeCheck(_, _), ArgsTypeCheck(_, _, _), ParamsMatch(_, _, _),
          IndicesTypeCheck(_, _, _)

\* for (CAstExpression* it : _arg) if (!it->TypeCheck(t, msg)) return false;
ArgsTypeCheck(e, p, i) ==
  IF i > Len(e.arg) THEN Pass
  ELSE AndThen(ExprTypeCheck(e.arg[i], p \o <<i - 1>>), ArgsTypeCheck(e, p, i + 1))

\* for (int i = 0; i < n; i++) the parameter's type against the argument's
ParamsMatch(e, p, i) ==
  IF i > Len(ProcParams(e.sym)) THEN Pass
  ELSE IF ProcParams(e.sym)[i] = NoType
  THEN Fail(p \o <<i - 1>>, "argument's type is invalid")
  ELSE IF ~Match(ProcParams(e.sym)[i], GetType(e.arg[i]))
  THEN Fail(p, "argument's type does not match with the parameter")
  ELSE ParamsMatch(e, p, i + 1)

\* a check of a call that looks at the arguments before it counts them
FunctionCallTypeCheckArgsFirst(e, p) ==
  AndThen(ArgsTypeCheck(e, p, 1),
          IF Len(ProcParams(e.sym)) # Len(e.arg)
          THEN Fail(p, "number of arguments does not match the number of parameters")
          ELSE ParamsMatch(e, p, 1))

FunctionCallTypeCheck(e, p) ==
  IF Len(ProcParams(e.sym)) # Len(e.arg)
  THEN Fail(p, "number of arguments does not match the number of parameters")
  ELSE AndThen(ArgsTypeCheck(e, p, 1), ParamsMatch(e, p, 1))

\* for (int i = 0; i < _idx.size(); i++) each index checks and is an integer
IndicesTypeCheck(e, p, i) ==
  IF i > Len(e.idx) THEN Pass
  ELSE AndThen(ExprTypeCheck(e.idx[i], p \o <<i - 1>>),
               IF ~Match(GetType(e.idx[i]), TInt)
               THEN Fail(p \o <<i - 1>>, "index in array designator must be integer type")
               ELSE IndicesTypeCheck(e, p, i + 1))

ArrayDesignatorTypeCheck(e, p) ==
  IF ~e.done THEN Abort
  ELSE LET dt == SymType(e.sym)
           ret == IF IsPointer(dt) THEN dt.base ELSE dt
           Indexed(type) == IF type = NoType THEN Fail(p, "Too many indices")
                            ELSE IF IsArray(type) THEN Fail(p, "Not enough indices")
                            ELSE Pass
       IN IF ~IsArray(ret)
          THEN Fail(p, "symbol's type should be array or pointer of array")
          ELSE AndThen(IndicesTypeCheck(e, p, 1), Indexed(GetType(e)))

ExprTypeCheck(e, p) ==
  CASE e.node = "Constant" -> ConstantTypeCheck(e, p)
    [] e.node = "Designator" -> DesignatorTypeCheck(e, p)
    [] e.node = "ArrayDesignator" -> ArrayDesignatorTypeCheck(e, p)
    [] e.node = "BinaryOp" ->
         AndThen(AndThen(ExprTypeCheck(e.left, p \o <<0>>),
                         ExprTypeCheck(e.right, p \o <<1>>)),
                 BinaryOpTypeRule(e, p))
    [] e.node = "UnaryOp" ->
         AndThen(ExprTypeCheck(e.operand, p \o <<0>>), UnaryOpTypeRule(e, p))
    [] e.node = "SpecialOp" ->
         AndThen(ExprTypeCheck(e.operand, p \o <<0>>), SpecialOpTypeRule(e, p))
    [] e.node = "FunctionCall" -> FunctionCallTypeCheck(e, p)
    [] OTHER -> Pass

RECURSIVE StatTypeCheck(_, _), StatListTypeCheck(_, _, _, _)

\* a loop that goes on after a failure: while (n != NULL) { chk = n->TypeCheck(t, msg); ... }
RECURSIVE StatListTypeCheckOn(_, _, _, _)
StatListTypeCheckOn(list, p, base, i) ==
  IF i > Len(list) THEN Pass
  ELSE Then(StatTypeCheck(list[i], p \o <<base + i>>),
            StatListTypeCheckOn(list, p, base, i + 1))

\* while (chk && n != NULL) { chk = n->TypeCheck(t, msg); n = n->GetNext(); }
StatListTypeCheck(list, p, base, i) ==
  IF i > Len(list) THEN Pass
  ELSE AndThen(StatTypeCheck(list[i], p \o <<base + i>>),
               StatListTypeCheck(list, p, base, i + 1))

StatAssignTypeCheck(s, p) ==
  LET Rule(lhsType) ==
        IF ~IsScalar(lhsType)
        THEN Fail(p \o <<1>>, "left handside designator must be scalar type")
        ELSE IF ~Match(GetType(s.rhs), lhsType)
        THEN Fail(p \o <<1>>,
               "right handside expression must be same type as left handside designator")
        ELSE Pass
  IN AndThen(AndThen(ExprTypeCheck(s.lhs, p \o <<0>>), ExprTypeCheck(s.rhs, p \o <<1>>)),
             Rule(GetType(s.lhs)))

StatCallTypeCheck(s, p) == ExprTypeCheck(s.call, p \o <<0>>)

\* a check of Return that takes an expression of any type
StatReturnTypeCheckAnyType(s, p) ==
  LET st == s.scopeType
      e == s.expr
  IN IF Match(st, TNull) THEN
       IF e # NoNode THEN Fail(p \o <<0>>, "superfluous expression after return.")
       ELSE Pass
     ELSE IF e = NoNode THEN Fail(p, "expression expected after return.")
     ELSE ExprTypeCheck(e, p \o <<0>>)

StatReturnTypeCheck(s, p) ==
  LET st == s.scopeType
      e == s.expr
  IN IF Match(st, TNull) THEN
       IF e # NoNode THEN Fail(p \o <<0>>, "superfluous expression after return.")
       ELSE Pass
     ELSE IF e = NoNode THEN Fail(p, "expression expected after return.")
     ELSE AndThen(ExprTypeCheck(e, p \o <<0>>),
                  IF ~Match(st, GetType(e))
                  THEN Fail(p \o <<0>>, "return type mismatch.") ELSE Pass)

StatIfTypeCheck(s, p) ==
  AndThen(AndThen(AndThen(ExprTypeCheck(s.cond, p \o <<0>>),
                          \* while (chk && n != NULL) over the then-list
                          StatListTypeCheck(s.ifBody, p, 100, 1)),
                  \* n = _elseBody; if (chk && n != NULL) { chk = n->TypeCheck(t, msg); ... }
                  IF Len(s.elseBody) > 0
                  THEN StatTypeCheck(s.elseBody[1], p \o <<201>>) ELSE Pass),
          IF ~Match(GetType(s.cond), TBool)
          THEN Fail(p \o <<0>>, "expected boolean type condition") ELSE Pass)

StatBreakTypeCheck(s, p) == Pass

StatWhileTypeCheck(s, p) ==
  AndThen(AndThen(ExprTypeCheck(s.cond, p \o <<0>>), StatListTypeCheck(s.body, p, 100, 1)),
          IF ~Match(GetType(s.cond), TBool)
          THEN Fail(p \o <<0>>, "expected boolean type condition") ELSE Pass)

StatTypeCheck(s, p) ==
  CASE s.node = "StatAssign" -> StatAssignTypeCheck(s, p)
    [] s.node = "StatCall" -> StatCallTypeCheck(s, p)
    [] s.node = "StatReturn" -> StatReturnTypeCheck(s, p)
    [] s.node = "StatIf" -> StatIfTypeCheck(s, p)
    [] s.node = "StatBreak" -> StatBreakTypeCheck(s, p)
    [] s.node = "StatWhile" -> StatWhileTypeCheck(s, p)
    [] OTHER -> Pass

RECURSIVE ScopeTypeCheck(_, _), ChildrenTypeCheck(_, _, _)

\* while (result && (it != _children.end())) result = (*it)->TypeCheck(t, msg);
ChildrenTypeCheck(sc, p, i) ==
  IF i > Len(sc.children) THEN Pass
  ELSE AndThen(ScopeTypeCheck(sc.children[i], p \o <<300 + i>>),
               ChildrenTypeCheck(sc, p, i + 1))

\* The catch (...) of the scope catches C++ exceptions; none of the checks
\* throws one, and a failed assert() ends the process instead.
ScopeTypeCheck(sc, p) ==
  AndThen(StatListTypeCheck(sc.statseq, p, 100, 1), ChildrenTypeCheck(sc, p, 1))

(***************************************************************************)
(* Three-address code.  An instruction is [op, dst, src1, src2, at]; "at"  *)
(* is the position of the AST node whose ToTac added it.  A label is an    *)
(* instruction of its own (op = "opLabel") where it is added, and the dst  *)
(* of a Goto or of a conditional branch; "role" is the name of the C++     *)
(* variable that held it when it was created.                              *)
(***************************************************************************)
NullAddr == [a |-> "NULL"]
TacConst(v) == [a |-> "const", v |-> v]
TacName(s) == [a |-> "name", sym |-> s]
TacTemp(n) == [a |-> "temp", n |-> n]
TacReference(base, s) == [a |-> "ref", base |-> base, sym |-> s]
TacLabel(n, role) == [a |-> "label", n |-> n, role |-> role]
TacInstr(op, dst, src1, src2, at) ==
  [op |-> op, dst |-> dst, src1 |-> src1, src2 |-> src2, at |-> at]
LabelInstr(l, at) == TacInstr("opLabel", l, NullAddr, NullAddr, at)

(***************************************************************************)
(* The code block.  Once an assertion has failed the process is gone and   *)
(* the block stays as it is.                                               *)
(***************************************************************************)
NewCodeBlock == [instrs |-> <<>>, nlabel |-> 0, ntemp |-> 0, aborted |-> FALSE]
Ret(cb, addr) == [cb |-> cb, addr |-> addr]
AssertFailed(cb) == [cb EXCEPT !.aborted = TRUE]
AddInstr(cb, ins) == IF cb.aborted THEN cb ELSE [cb EXCEPT !.instrs = Append(@, ins)]
CreateLabel(cb, role) ==
  IF cb.aborted THEN Ret(cb, NullAddr)
  ELSE Ret([cb EXCEPT !.nlabel = @ + 1], TacLabel(cb.nlabel + 1, role))
CreateTemp(cb, type) ==
  IF cb.aborted THEN Ret(cb, NullAddr)
  ELSE Ret([cb EXCEPT !.ntemp = @ + 1], TacTemp(cb.ntemp + 1))

(***************************************************************************)
(* CAstArrayDesignator::ToTac: the expression tree it builds               *)
(***************************************************************************)
\* while (t->IsArray()) { if (cnt >= _idx.size()) _idx.push_back(0); cnt++; ... }
RECURSIVE FillIndices(_, _, _)
FillIndices(idx, t, cnt) ==
  IF ~IsArray(t) THEN idx
  ELSE FillIndices(IF cnt >= Len(idx) THEN Append(idx, Constant(TInt, LLOf(0))) ELSE idx,
                   t.inner, cnt + 1)

RECURSIVE InnermostType(_)
InnermostType(t) == IF IsArray(t) THEN InnermostType(t.inner) ELSE t

\* the dimension counted from the round, without the one of the pointer
DimNumberOfRound(i) == i + 1
\* dimCall->AddArg(new CAstConstant(emptyToken, tm->GetInt(), i+2));
DimNumber(i) == i + 2

\* for (int i = 0; i < _idx.size(); i++): the offset after the rounds 0..i-1
RECURSIVE OffsetExpr(_, _, _, _)
OffsetExpr(idx, arrayPointer, size, i) ==
  LET prev == OffsetExpr(idx, arrayPointer, size, i - 1)
      sum == IF i = 1 THEN idx[1] ELSE BinaryOp("opAdd", prev, idx[i])
  IN IF i = 0 THEN NoNode
     ELSE IF i = Len(idx)
     THEN BinaryOp("opMul", sum, Constant(TInt, LLOf(size)))
     ELSE BinaryOp("opMul", sum,
            FunctionCall("DIM", <<arrayPointer, Constant(TInt, LLOf(DimNumber(i - 1)))>>))

ArrayPointerExpr(e) ==
  IF IsPointer(SymType(e.sym)) THEN Designator(e.sym)
  ELSE SpecialOp("opAddress", Designator(e.sym), NoType)

ArrayTypeOf(e) ==
  IF IsPointer(SymType(e.sym)) THEN SymType(e.sym).base ELSE SymType(e.sym)

AddressExpr(e) ==
  LET arrayType == ArrayTypeOf(e)
      arrayPointer == ArrayPointerExpr(e)
      idx == FillIndices(e.idx, arrayType, 0)
      size == GetSize(InnermostType(arrayType))
      offset == OffsetExpr(idx, arrayPointer, size, Len(idx))
      dofsCall == FunctionCall("DOFS", <<arrayPointer>>)
  IN BinaryOp("opAdd", arrayPointer, BinaryOp("opAdd", offset, dofsCall))

(***************************************************************************)
(* Lowering of expressions: value mode ExprToTac(cb, e, p) and jumping     *)
(* mode ExprToTacJ(cb, e, p, ltrue, lfalse); each returns [cb, addr].      *)
(***************************************************************************)
Goto(l, p) == TacInstr("opGoto", l, NullAddr, NullAddr, p)

RECURSIVE ExprToTac(_, _, _), ExprToTacJ(_, _, _, _, _), ParamsToTac(_, _, _, _)
RECURSIVE ParamsToTacAscending(_, _, _, _)

\* a materialisation whose false branch assigns 1 as well
BoolToTacOnes(cb, e, p) ==
  LET ret == CreateTemp(cb, TBool)
      trueLabel == CreateLabel(ret.cb, "trueLabel")
      falseLabel == CreateLabel(trueLabel.cb, "falseLabel")
      nextLabel == CreateLabel(falseLabel.cb, "nextLabel")
      Emit(j) ==
        LET c1 == AddInstr(j.cb, LabelInstr(trueLabel.addr, p))
            c2 == AddInstr(c1, TacInstr("opAssign", ret.addr, TacConst(1), NullAddr, p))
            c3 == AddInstr(c2, Goto(nextLabel.addr, p))
            c4 == AddInstr(c3, LabelInstr(falseLabel.addr, p))
            c5 == AddInstr(c4, TacInstr("opAssign", ret.addr, TacConst(1), NullAddr, p))
        IN Ret(AddInstr(c5, LabelInstr(nextLabel.addr, p)), ret.addr)
  IN Emit(ExprToTacJ(nextLabel.cb, e, p, trueLabel.addr, falseLabel.addr))

\* the materialisation of a boolean value, shared text of
\* CAstBinaryOp::ToTac(cb) and CAstUnaryOp::ToTac(cb)
BoolToTac(cb, e, p) ==
  LET ret == CreateTemp(cb, TBool)
      trueLabel == CreateLabel(ret.cb, "trueLabel")
      falseLabel == CreateLabel(trueLabel.cb, "falseLabel")
      nextLabel == CreateLabel(falseLabel.cb, "nextLabel")
      Emit(j) ==
        LET c1 == AddInstr(j.cb, LabelInstr(trueLabel.addr, p))
            c2 == AddInstr(c1, TacInstr("opAssign", ret.addr, TacConst(1), NullAddr, p))
            c3 == AddInstr(c2, Goto(nextLabel.addr, p))
            c4 == AddInstr(c3, LabelInstr(falseLabel.addr, p))
            c5 == AddInstr(c4, TacInstr("opAssign", ret.addr, TacConst(0), NullAddr, p))
        IN Ret(AddInstr(c5, LabelInstr(nextLabel.addr, p)), ret.addr)
  IN Emit(ExprToTacJ(nextLabel.cb, e, p, trueLabel.addr, falseLabel.addr))

\* a lowering that creates the temporary of an arithmetic operation before
\* it lowers the operands
BinaryOpToTacTempFirst(cb, e, p) ==
  IF Match(TBool, GetType(e)) THEN BoolToTac(cb, e, p)
  ELSE LET Emit(lhs, rhs, ret) ==
             Ret(AddInstr(rhs.cb, TacInstr(e.oper, ret.addr, lhs.addr, rhs.addr, p)), ret.addr)
           Right(lhs, ret) == Emit(lhs, ExprToTac(lhs.cb, e.right, p \o <<1>>), ret)
           Left(ret) == Right(ExprToTac(ret.cb, e.left, p \o <<0>>), ret)
       IN Left(CreateTemp(cb, GetType(e)))

BinaryOpToTac(cb, e, p) ==
  IF Match(TBool, GetType(e)) THEN BoolToTac(cb, e, p)
  ELSE LET Emit(lhs, rhs, ret) ==
             Ret(AddInstr(ret.cb, TacInstr(e.oper, ret.addr, lhs.addr, rhs.addr, p)), ret.addr)
           Temp(lhs, rhs) == Emit(lhs, rhs, CreateTemp(rhs.cb, GetType(e)))
           Right(lhs) == Temp(lhs, ExprToTac(lhs.cb, e.right, p \o <<1>>))
       IN Right(ExprToTac(cb, e.left, p \o <<0>>))

BinaryOpToTacJ(cb, e, p, ltrue, lfalse) ==
  IF ~Match(TBool, GetType(e)) THEN Ret(AssertFailed(cb), NullAddr)
  ELSE IF e.oper \in {"opAnd", "opOr"}
  THEN LET midLabel == CreateLabel(cb, "midLabel")
           Right(l) ==
             Ret(ExprToTacJ(AddInstr(l.cb, LabelInstr(midLabel.addr, p)),
                            e.right, p \o <<1>>, ltrue, lfalse).cb, NullAddr)
       IN Right(IF e.oper = "opAnd"
                THEN ExprToTacJ(midLabel.cb, e.left, p \o <<0>>, midLabel.addr, lfalse)
                ELSE ExprToTacJ(midLabel.cb, e.left, p \o <<0>>, ltrue, midLabel.addr))
  ELSE LET Emit(lhs, rhs) ==
             Ret(AddInstr(AddInstr(rhs.cb, TacInstr(e.oper, ltrue, lhs.addr, rhs.addr, p)),
                          Goto(lfalse, p)), NullAddr)
           Right(lhs) == Emit(lhs, ExprToTac(lhs.cb, e.right, p \o <<1>>))
       IN Right(ExprToTac(cb, e.left, p \o <<0>>))

UnaryOpToTac(cb, e, p) ==
  CASE e.oper = "opNeg" ->
         LET Emit(operand, ret) ==
               Ret(AddInstr(ret.cb, TacInstr(e.oper, ret.addr, operand.addr, NullAddr, p)),
                   ret.addr)
             Temp(operand) == Emit(operand, CreateTemp(operand.cb, GetType(e)))
         IN Temp(ExprToTac(cb, e.operand, p \o <<0>>))
    [] e.oper = "opPos" -> ExprToTac(cb, e.operand, p \o <<0>>)
    [] OTHER -> BoolToTac(cb, e, p)

UnaryOpToTacJ(cb, e, p, ltrue, lfalse) ==
  IF ~Match(TBool, GetType(e)) THEN Ret(AssertFailed(cb), NullAddr)
  ELSE Ret(ExprToTacJ(cb, e.operand, p \o <<0>>, lfalse, ltrue).cb, NullAddr)

SpecialOpToTac(cb, e, p) ==
  LET Emit(operand, temp) ==
        Ret(AddInstr(temp.cb, TacInstr(e.oper, temp.addr, operand.addr, NullAddr, p)),
            temp.addr)
      Temp(operand) == Emit(operand, CreateTemp(operand.cb, GetType(e)))
  IN Temp(ExprToTac(cb, e.operand, p \o <<0>>))

\* CAstSpecialOp does not override the jumping mode: CAstExpression::ToTac
ExpressionToTacJ(cb, e, p, ltrue, lfalse) == Ret(cb, NullAddr)

\* an argument loop that runs from the first argument to the last
ParamsToTacAscending(cb, e, p, i) ==
  IF i < 0 THEN cb
  ELSE LET j == Len(e.arg) - 1 - i
           Emit(a) == AddInstr(a.cb, TacInstr("opParam", TacConst(j), a.addr, NullAddr, p))
       IN ParamsToTacAscending(Emit(ExprToTac(cb, e.arg[j + 1], p \o <<j>>)), e, p, i - 1)

\* for (int i = GetNArgs() - 1; i >= 0; i--) Param(i, GetArg(i)->ToTac(cb))
ParamsToTac(cb, e, p, i) ==
  IF i < 0 THEN cb
  ELSE LET Emit(a) == AddInstr(a.cb, TacInstr("opParam", TacConst(i), a.addr, NullAddr, p))
       IN ParamsToTac(Emit(ExprToTac(cb, e.arg[i + 1], p \o <<i>>)), e, p, i - 1)

\* a call lowering that forgets the Call instruction
FunctionCallToTacNoCall(cb, e, p) ==
  LET Emit(dst) == Ret(ParamsToTac(dst.cb, e, p, Len(e.arg) - 1), dst.addr)
  IN Emit(IF Match(TNull, GetType(e)) THEN Ret(cb, NullAddr)
          ELSE CreateTemp(cb, GetType(e)))

\* a call lowering that adds the Call before the Params
FunctionCallToTacCallFirst(cb, e, p) ==
  LET Emit(dst) ==
        Ret(ParamsToTac(AddInstr(dst.cb, TacInstr("opCall", dst.addr, TacName(e.sym), NullAddr, p)),
                        e, p, Len(e.arg) - 1), dst.addr)
  IN Emit(IF Match(TNull, GetType(e)) THEN Ret(cb, NullAddr)
          ELSE CreateTemp(cb, GetType(e)))

FunctionCallToTac(cb, e, p) ==
  LET Emit(dst) ==
        Ret(AddInstr(ParamsToTac(dst.cb, e, p, Len(e.arg) - 1),
                     TacInstr("opCall", dst.addr, TacName(e.sym), NullAddr, p)), dst.addr)
  IN Emit(IF Match(TNull, GetType(e)) THEN Ret(cb, NullAddr)
          ELSE CreateTemp(cb, GetType(e)))

\* value mode, then Eq(ltrue, v, 1); Goto lfalse
ValueToTacJ(cb, e, p, ltrue, lfalse) ==
  LET Emit(v) ==
        Ret(AddInstr(AddInstr(v.cb, TacInstr("opEqual", ltrue, v.addr, TacConst(1), p)),
                     Goto(lfalse, p)), NullAddr)
  IN Emit(ExprToTac(cb, e, p))

FunctionCallToTacJ(cb, e, p, ltrue, lfalse) ==
  IF ~Match(TBool, GetType(e)) THEN Ret(AssertFailed(cb), NullAddr)
  ELSE ValueToTacJ(cb, e, p, ltrue, lfalse)

DesignatorToTac(cb, e, p) == Ret(cb, TacName(e.sym))

DesignatorToTacJ(cb, e, p, ltrue, lfalse) ==
  IF ~Match(TBool, GetType(e)) THEN Ret(AssertFailed(cb), NullAddr)
  ELSE ValueToTacJ(cb, e, p, ltrue, lfalse)

ArrayDesignatorToTac(cb, e, p) ==
  IF ~IsArray(ArrayTypeOf(e)) THEN Ret(AssertFailed(cb), NullAddr)
  ELSE LET Copy(result, temp) ==
             Ret(AddInstr(temp.cb, TacInstr("opAssign", temp.addr, result.addr, NullAddr, p)),
                 TacReference(temp.addr, e.sym))
           Emit(result) ==
             IF result.addr.a \in {"name", "temp"}
             THEN Ret(result.cb, TacReference(result.addr, e.sym))
             ELSE Copy(result, CreateTemp(result.cb, TInt))
       IN Emit(ExprToTac(cb, AddressExpr(e), p \o <<900>>))

ArrayDesignatorToTacJ(cb, e, p, ltrue, lfalse) ==
  LET Emit(ret) ==
        Ret(AddInstr(AddInstr(ret.cb, TacInstr("opEqual", ltrue, ret.addr, TacConst(1), p)),
                     Goto(lfalse, p)), ret.addr)
  IN Emit(ExprToTac(cb, e, p))

ConstantToTac(cb, e, p) == Ret(cb, TacConst(ToInt(e.value)))

ConstantToTacJ(cb, e, p, ltrue, lfalse) ==
  IF ~Match(TBool, GetType(e)) THEN Ret(AssertFailed(cb), NullAddr)
  ELSE ValueToTacJ(cb, e, p, ltrue, lfalse)

ExprToTac(cb, e, p) ==
  IF cb.aborted THEN Ret(cb, NullAddr)
  ELSE CASE e.node = "Constant" -> ConstantToTac(cb, e, p)
         [] e.node = "Designator" -> DesignatorToTac(cb, e, p)
         [] e.node = "ArrayDesignator" -> ArrayDesignatorToTac(cb, e, p)
         [] e.node = "BinaryOp" -> BinaryOpToTac(cb, e, p)
         [] e.node = "UnaryOp" -> UnaryOpToTac(cb, e, p)
         [] e.node = "SpecialOp" -> SpecialOpToTac(cb, e, p)
         [] e.node = "FunctionCall" -> FunctionCallToTac(cb, e, p)
         [] OTHER -> Ret(cb, NullAddr)

ExprToTacJ(cb, e, p, ltrue, lfalse) ==
  IF cb.aborted THEN Ret(cb, NullAddr)
  ELSE CASE e.node = "Constant" -> ConstantToTacJ(cb, e, p, ltrue, lfalse)
         [] e.node = "Designator" -> DesignatorToTacJ(cb, e, p, ltrue, lfalse)
         [] e.node = "ArrayDesignator" -> ArrayDesignatorToTacJ(cb, e, p, ltrue, lfalse)
         [] e.node = "BinaryOp" -> BinaryOpToTacJ(cb, e, p, ltrue, lfalse)
         [] e.node = "UnaryOp" -> UnaryOpToTacJ(cb, e, p, ltrue, lfalse)
         [] e.node = "SpecialOp" -> ExpressionToTacJ(cb, e, p, ltrue, lfalse)
         [] e.node = "FunctionCall" -> FunctionCallToTacJ(cb, e, p, ltrue, lfalse)
         [] OTHER -> Ret(cb, NullAddr)

(***************************************************************************)
(* Lowering of statements: StatToTac(cb, s, p, next, end) returns the code *)
(* block.  end is NullAddr outside a loop.                                 *)
(***************************************************************************)
RECURSIVE StatToTac(_, _, _, _, _), StatListToTac(_, _, _, _, _, _)

\* a statement loop that forgets cb->AddInstr(next)
RECURSIVE StatListToTacNoLabel(_, _, _, _, _, _)
StatListToTacNoLabel(cb, list, p, base, end, i) ==
  IF i > Len(list) THEN cb
  ELSE LET next == CreateLabel(cb, "next")
       IN StatListToTacNoLabel(
            StatToTac(next.cb, list[i], p \o <<base + i>>, next.addr, end),
            list, p, base, end, i + 1)

\* while (s != NULL) { next = CreateLabel(); s->ToTac(cb, next, end); AddInstr(next); }
StatListToTac(cb, list, p, base, end, i) ==
  IF i > Len(list) THEN cb
  ELSE LET next == CreateLabel(cb, "next")
       IN StatListToTac(
            AddInstr(StatToTac(next.cb, list[i], p \o <<base + i>>, next.addr, end),
                     LabelInstr(next.addr, p)),
            list, p, base, end, i + 1)

\* an assignment lowering that evaluates the right-hand side first
StatAssignToTacRhsFirst(cb, s, p, next, end) ==
  LET Emit(dest, src) ==
        AddInstr(AddInstr(dest.cb, TacInstr("opAssign", dest.addr, src.addr, NullAddr, p)),
                 Goto(next, p))
      Dest(src) == Emit(ExprToTac(src.cb, s.lhs, p \o <<0>>), src)
  IN Dest(ExprToTac(cb, s.rhs, p \o <<1>>))

StatAssignToTac(cb, s, p, next, end) ==
  LET Emit(dest, src) ==
        AddInstr(AddInstr(src.cb, TacInstr("opAssign", dest.addr, src.addr, NullAddr, p)),
                 Goto(next, p))
      \* CTacAddr *dest = _lhs->ToTac(cb); CTacAddr *src = _rhs->ToTac(cb);
      Src(dest) == Emit(dest, ExprToTac(dest.cb, s.rhs, p \o <<1>>))
  IN Src(ExprToTac(cb, s.lhs, p \o <<0>>))

StatCallToTac(cb, s, p, next, end) ==
  AddInstr(ExprToTac(cb, s.call, p \o <<0>>).cb, Goto(next, p))

\* a return lowering that adds no Goto after the Return
StatReturnToTacNoGoto(cb, s, p, next, end) ==
  IF s.expr # NoNode
  THEN LET Emit(src1) ==
             AddInstr(src1.cb, TacInstr("opReturn", NullAddr, src1.addr, NullAddr, p))
       IN Emit(ExprToTac(cb, s.expr, p \o <<0>>))
  ELSE AddInstr(cb, TacInstr("opReturn", NullAddr, NullAddr, NullAddr, p))

StatReturnToTac(cb, s, p, next, end) ==
  IF s.expr # NoNode
  THEN LET Emit(src1) ==
             AddInstr(AddInstr(src1.cb,
                               TacInstr("opReturn", NullAddr, src1.addr, NullAddr, p)),
                      Goto(next, p))
       IN Emit(ExprToTac(cb, s.expr, p \o <<0>>))
  ELSE AddInstr(AddInstr(cb, TacInstr("opReturn", NullAddr, NullAddr, NullAddr, p)),
                Goto(next, p))

StatIfToTac(cb, s, p, next, end) ==
  LET ifLabel == CreateLabel(cb, "ifLabel")
      elseLabel == CreateLabel(ifLabel.cb, "elseLabel")
      endLabel == CreateLabel(elseLabel.cb, "endLabel")
  IN \* read from the innermost line outwards: the condition, ifLabel, the
     \* then-list, Goto endLabel, elseLabel, the else-list, endLabel, Goto next
     AddInstr(AddInstr(
       StatListToTac(
         AddInstr(AddInstr(
           StatListToTac(
             AddInstr(ExprToTacJ(endLabel.cb, s.cond, p \o <<0>>,
                                 ifLabel.addr, elseLabel.addr).cb,
                      LabelInstr(ifLabel.addr, p)),
             s.ifBody, p, 100, end, 1),
           Goto(endLabel.addr, p)), LabelInstr(elseLabel.addr, p)),
         s.elseBody, p, 200, end, 1),
       LabelInstr(endLabel.addr, p)), Goto(next, p))

\* a break lowering that, given no end label, goes on to the next statement
StatBreakToTacToNext(cb, s, p, next, end) ==
  IF end = NullAddr THEN AddInstr(cb, Goto(next, p))
  ELSE AddInstr(cb, Goto(end, p))

StatBreakToTac(cb, s, p, next, end) ==
  IF end = NullAddr THEN AssertFailed(cb)
  ELSE AddInstr(cb, Goto(end, p))

\* a loop lowering that, inside another loop, hands its body the end label
\* of that loop
StatWhileToTacOuterEnd(cb, s, p, next, end) ==
  LET re == CreateLabel(cb, "re")
      body == CreateLabel(re.cb, "body")
      loopEnd == CreateLabel(body.cb, "loopEnd")
  IN AddInstr(AddInstr(AddInstr(
       StatListToTac(
         AddInstr(ExprToTacJ(AddInstr(loopEnd.cb, LabelInstr(re.addr, p)),
                             s.cond, p \o <<0>>, body.addr, loopEnd.addr).cb,
                  LabelInstr(body.addr, p)),
         s.body, p, 100, IF end = NullAddr THEN loopEnd.addr ELSE end, 1),
       Goto(re.addr, p)), LabelInstr(loopEnd.addr, p)), Goto(next, p))

StatWhileToTac(cb, s, p, next, end) ==
  LET re == CreateLabel(cb, "re")
      body == CreateLabel(re.cb, "body")
      loopEnd == CreateLabel(body.cb, "loopEnd")
  IN \* read from the innermost line outwards: re, the condition, body, the
     \* body list with loopEnd as its end, Goto re, loopEnd, Goto next
     AddInstr(AddInstr(AddInstr(
       StatListToTac(
         AddInstr(ExprToTacJ(AddInstr(loopEnd.cb, LabelInstr(re.addr, p)),
                             s.cond, p \o <<0>>, body.addr, loopEnd.addr).cb,
                  LabelInstr(body.addr, p)),
         s.body, p, 100, loopEnd.addr, 1),
       Goto(re.addr, p)), LabelInstr(loopEnd.addr, p)), Goto(next, p))

StatToTac(cb, s, p, next, end) ==
  IF cb.aborted THEN cb
  ELSE CASE s.node = "StatAssign" -> StatAssignToTac(cb, s, p, next, end)
         [] s.node = "StatCall" -> StatCallToTac(cb, s, p, next, end)
         [] s.node = "StatReturn" -> StatReturnToTac(cb, s, p, next, end)
         [] s.node = "StatIf" -> StatIfToTac(cb, s, p, next, end)
         [] s.node = "StatBreak" -> StatBreakToTac(cb, s, p, next, end)
         [] s.node = "StatWhile" -> StatWhileToTac(cb, s, p, next, end)
         [] OTHER -> AddInstr(cb, Goto(next, p))

\* CAstScope::ToTac up to, and without, cb->CleanupControlFlow()
ScopeToTac(cb, sc, p) == StatListToTac(cb, sc.statseq, p, 100, NullAddr, 1)

(***************************************************************************)
(* Navigation: the nodes of a tree with their positions.                   *)
(***************************************************************************)
IsPrefix(p, q) == Len(p) <= Len(q) /\ SubSeq(q, 1, Len(p)) = p

RECURSIVE ExprNodes(_, _), StatNodes(_, _)
ExprNodes(e, p) ==
  {[p |-> p, n |-> e]} \cup
  CASE e.node = "BinaryOp" -> ExprNodes(e.left, p \o <<0>>) \cup ExprNodes(e.right, p \o <<1>>)
    [] e.node \in {"UnaryOp", "SpecialOp"} -> ExprNodes(e.operand, p \o <<0>>)
    [] e.node = "FunctionCall" ->
         UNION {ExprNodes(e.arg[i], p \o <<i - 1>>) : i \in 1..Len(e.arg)}
    [] e.node = "ArrayDesignator" ->
         UNION {ExprNodes(e.idx[i], p \o <<i - 1>>) : i \in 1..Len(e.idx)}
    [] OTHER -> {}

StatNodes(s, p) ==
  {[p |-> p, n |-> s]} \cup
  CASE s.node = "StatAssign" -> ExprNodes(s.lhs, p \o <<0>>) \cup ExprNodes(s.rhs, p \o <<1>>)
    [] s.node = "StatCall" -> ExprNodes(s.call, p \o <<0>>)
    [] s.node = "StatReturn" -> IF s.expr = NoNode THEN {} ELSE ExprNodes(s.expr, p \o <<0>>)
    [] s.node = "StatIf" ->
         ExprNodes(s.cond, p \o <<0>>)
         \cup UNION {StatNodes(s.ifBody[i], p \o <<100 + i>>) : i \in 1..Len(s.ifBody)}
         \cup UNION {StatNodes(s.elseBody[i], p \o <<200 + i>>) : i \in 1..Len(s.elseBody)}
    [] s.node = "StatWhile" ->
         ExprNodes(s.cond, p \o <<0>>)
         \cup UNION {StatNodes(s.body[i], p \o <<100 + i>>) : i \in 1..Len(s.body)}
    [] OTHER -> {}

\* the nodes of the statements of a scope (not of its nested scopes)
ScopeNodes(sc) ==
  UNION {StatNodes(sc.statseq[i], <<100 + i>>) : i \in 1..Len(sc.statseq)}

RECURSIVE AllNodes(_, _)
\* the nodes of the statements of a scope and of its nested scopes
AllNodes(sc, p) ==
  UNION {StatNodes(sc.statseq[i], p \o <<100 + i>>) : i \in 1..Len(sc.statseq)}
  \cup UNION {AllNodes(sc.children[i], p \o <<300 + i>>) : i \in 1..Len(sc.children)}

(***************************************************************************)
(* The run-time meaning of the emitted code: the machine the back end      *)
(* targets.  Data symbols hold one cell each (an array or a pointer: the   *)
(* cell its references and dereferences reach), procedure f returns its    *)
(* cell, and DIM and DOFS read the header of the array a pointer addresses.*)
(***************************************************************************)
DataSyms == {"x", "i", "b", "c", "pb", "ab", "a1", "a2", "a3", "pa2", "f"}
BoolSyms == {"b", "pb", "ab", "f"}

AddrOf(s) ==
  CASE s = "a1" -> 1000 [] s = "a2" -> 2000 [] s = "a3" -> 3000
    [] s = "ab" -> 4000 [] s = "pa2" -> 5000 [] s = "pb" -> 6000 [] OTHER -> 0

RECURSIVE Dims(_)
Dims(t) == IF IsArray(t) THEN <<t.n>> \o Dims(t.inner) ELSE <<>>

\* the type of the array at an address
ArrayAt(ptr) ==
  LET s == CHOOSE s \in {"a1", "a2", "a3", "ab", "pa2", "pb"} : AddrOf(s) = ptr
  IN IF IsPointer(SymType(s)) THEN SymType(s).base ELSE SymType(s)

DIM(ptr, k) == Dims(ArrayAt(ptr))[k]
DOFS(ptr) == 4 * (Len(Dims(ArrayAt(ptr))) + 1)

NoRun == [ip |-> 0, store |-> [s \in DataSyms |-> 0], temps |-> <<>>, written |-> {},
          params |-> <<>>, steps |-> 0, via |-> "none", seen |-> {}, lastTF |-> 0,
          wild |-> FALSE]

StartRun(code, st) ==
  [NoRun EXCEPT !.ip = 1, !.store = st, !.temps = [n \in 1..code.ntemp |-> 0],
                !.via = "start"]

Val(r, a) ==
  CASE a.a = "const" -> a.v
    [] a.a = "name" -> IF IsPointer(SymType(a.sym)) THEN AddrOf(a.sym) ELSE r.store[a.sym]
    [] a.a = "temp" -> r.temps[a.n]
    [] a.a = "ref" -> r.store[a.sym]
    [] OTHER -> 0

Write(r, dst, v) ==
  CASE dst.a = "temp" -> [r EXCEPT !.temps[dst.n] = v, !.written = @ \cup {dst.n}]
    [] dst.a = "name" -> [r EXCEPT !.store[dst.sym] = v]
    [] dst.a = "ref" -> [r EXCEPT !.store[dst.sym] = v]
    [] OTHER -> r

RelOps == {"opEqual", "opNotEqual", "opLessThan", "opLessEqual", "opBiggerThan",
           "opBiggerEqual"}
ArithOps == {"opAdd", "opSub", "opMul", "opDiv"}

Rel(op, a, b) ==
  CASE op = "opEqual" -> a = b
    [] op = "opNotEqual" -> a # b
    [] op = "opLessThan" -> a < b
    [] op = "opLessEqual" -> a <= b
    [] op = "opBiggerThan" -> a > b
    [] OTHER -> a >= b

Arith(op, a, b) ==
  CASE op = "opAdd" -> a + b
    [] op = "opSub" -> a - b
    [] op = "opMul" -> a * b
    [] OTHER -> IF b = 0 THEN 0 ELSE a \div b

\* the temporaries an operand reads (a reference reads its base)
TempsOf(a) ==
  CASE a.a = "temp" -> {a.n}
    [] a.a = "ref" -> IF a.base.a = "temp" THEN {a.base.n} ELSE {}
    [] OTHER -> {}

\* the temporaries an instruction reads: its sources, and the base of a
\* reference it stores through
Reads(ins) ==
  TempsOf(ins.src1) \cup TempsOf(ins.src2)
  \cup (IF ins.dst.a = "ref" THEN TempsOf(ins.dst) ELSE {})

HasLabel(code, n) ==
  \E k \in 1..Len(code.instrs) :
    code.instrs[k].op = "opLabel" /\ code.instrs[k].dst.n = n
LabelIndex(code, n) ==
  CHOOSE k \in 1..Len(code.instrs) :
    code.instrs[k].op = "opLabel" /\ code.instrs[k].dst.n = n

\* the arguments of a call: the n most recent parameters, by their index
TakeArgs(params, n) ==
  [j \in 0..(n - 1) |->
     LET last == IF n >= Len(params) THEN params
                 ELSE SubSeq(params, Len(params) - n + 1, Len(params))
         at == {k \in 1..Len(last) : last[k].i = j}
     IN IF at = {} THEN 0 ELSE last[CHOOSE k \in at : TRUE].v]

DropArgs(params, n) ==
  IF n >= Len(params) THEN <<>> ELSE SubSeq(params, 1, Len(params) - n)

ProcResult(name, args, st) ==
  CASE name = "f" -> st["f"]
    [] name = "g" -> args[0] + 1
    [] name = "DIM" -> DIM(args[0], args[1])
    [] name = "DOFS" -> DOFS(args[0])
    [] OTHER -> 0

JumpTo(code, r, l) ==
  IF HasLabel(code, l.n)
  THEN [r EXCEPT !.ip = LabelIndex(code, l.n), !.via = "jump"]
  ELSE [r EXCEPT !.ip = Len(code.instrs) + 1, !.via = "jump", !.wild = TRUE]

\* one instruction
Exec(code, r) ==
  LET ins == code.instrs[r.ip]
      r0 == [r EXCEPT !.steps = @ + 1, !.seen = @ \cup {r.ip}]
      fall == [r0 EXCEPT !.ip = @ + 1, !.via = "fall"]
  IN CASE ins.op = "opLabel" ->
            IF ins.dst.role \in {"trueLabel", "falseLabel"}
            THEN [fall EXCEPT !.lastTF = ins.dst.n] ELSE fall
       [] ins.op = "opGoto" -> JumpTo(code, r0, ins.dst)
       [] ins.op = "opAssign" -> Write(fall, ins.dst, Val(r, ins.src1))
       [] ins.op \in ArithOps ->
            Write(fall, ins.dst, Arith(ins.op, Val(r, ins.src1), Val(r, ins.src2)))
       [] ins.op = "opNeg" -> Write(fall, ins.dst, 0 - Val(r, ins.src1))
       [] ins.op \in RelOps ->
            IF Rel(ins.op, Val(r, ins.src1), Val(r, ins.src2))
            THEN JumpTo(code, r0, ins.dst) ELSE fall
       [] ins.op = "opAddress" -> Write(fall, ins.dst, AddrOf(ins.src1.sym))
       [] ins.op = "opDeref" -> Write(fall, ins.dst, r.store[ins.src1.sym])
       [] ins.op = "opParam" ->
            [fall EXCEPT !.params = Append(@, [i |-> ins.dst.v, v |-> Val(r, ins.src1)])]
       [] ins.op = "opCall" ->
            LET n == Len(ProcParams(ins.src1.sym))
                res == ProcResult(ins.src1.sym, TakeArgs(r.params, n), r.store)
            IN Write([fall EXCEPT !.params = DropArgs(@, n)], ins.dst, res)
       [] ins.op = "opReturn" -> [r0 EXCEPT !.ip = Len(code.instrs) + 1, !.via = "jump"]
       [] OTHER -> fall

\* the instructions control may pass to from instruction k, whatever the
\* operands hold
Succ(code, k) ==
  LET ins == code.instrs[k]
      target == IF HasLabel(code, ins.dst.n) THEN LabelIndex(code, ins.dst.n)
                ELSE Len(code.instrs) + 1
  IN CASE ins.op = "opGoto" -> {target}
       [] ins.op \in RelOps -> {target, k + 1}
       [] ins.op = "opReturn" -> {Len(code.instrs) + 1}
       [] OTHER -> {k + 1}

\* the temporaries an instruction writes
Writes(ins) == IF ins.dst.a = "temp" /\ ins.op # "opLabel" THEN {ins.dst.n} ELSE {}

(***************************************************************************)
(* The value of an expression in a store: what its evaluation yields       *)
(* when every operand is evaluated.                                        *)
(***************************************************************************)
RECURSIVE Eval(_, _)
Eval(e, st) ==
  CASE e.node = "Constant" -> ToInt(e.value)
    [] e.node = "Designator" -> IF IsPointer(SymType(e.sym)) THEN AddrOf(e.sym) ELSE st[e.sym]
    [] e.node = "ArrayDesignator" -> st[e.sym]
    [] e.node = "BinaryOp" ->
         LET a == Eval(e.left, st)
             b == Eval(e.right, st)
         IN CASE e.oper \in ArithOps -> Arith(e.oper, a, b)
              [] e.oper = "opAnd" -> IF a = 1 /\ b = 1 THEN 1 ELSE 0
              [] e.oper = "opOr" -> IF a = 1 \/ b = 1 THEN 1 ELSE 0
              [] OTHER -> IF Rel(e.oper, a, b) THEN 1 ELSE 0
    [] e.node = "UnaryOp" ->
         LET a == Eval(e.operand, st)
         IN CASE e.oper = "opNeg" -> 0 - a
              [] e.oper = "opPos" -> a
              [] OTHER -> 1 - a
    [] e.node = "SpecialOp" ->
         IF e.oper = "opDeref" THEN st[e.operand.sym] ELSE AddrOf(e.operand.sym)
    [] e.node = "FunctionCall" ->
         ProcResult(e.sym, [j \in 0..(Len(e.arg) - 1) |-> Eval(e.arg[j + 1], st)], st)
    [] OTHER -> 0

(***************************************************************************)
(* The trees handed to the middle-end.                                     *)
(***************************************************************************)
MaxVal == 1
MaxBody == 2
MaxStmts == 3
MaxArgs == 2
MaxIdx == 4
MaxNew == 3
MaxLit == 2
MaxStrs == 2

Module(ss) == Scope(TNull, ss, <<>>)
SeqsUpTo(S, n) == UNION {[1..k -> S] : k \in 0..n}
K(n) == Constant(TInt, LLOf(n))
Deref(s) == SpecialOp("opDeref", Designator(s), NoType)
Index(s, idx) == ArrayDesignator(s, idx, TRUE)

BinOps == {"opAdd", "opSub", "opMul", "opDiv", "opAnd", "opOr", "opEqual", "opNotEqual",
           "opLessThan", "opLessEqual", "opBiggerThan", "opBiggerEqual"}

\* a designator of the expression's type to assign it to
LhsFor(e) ==
  IF GetType(e) = TInt THEN Designator("x")
  ELSE IF GetType(e) = TChar THEN Designator("c")
  ELSE Designator("b")

\* operators over operands of every type, one of which fails its own check
Operands == {Designator("x"), K(2), Designator("b"), Designator("c"), Designator("a1"),
             Designator("pb"), Constant(TChar, LLOf(256))}
OperatorTrees ==
  {Module(<<StatAssign(LhsFor(e), e)>>) :
     e \in {BinaryOp(op, l, r) : op \in BinOps, l \in Operands, r \in Operands}
           \cup {UnaryOp(op, l) : op \in {"opNeg", "opPos", "opNot"}, l \in Operands}}

\* boolean expressions, as a value and as a condition
BoolAtoms == {Designator("b"), Constant(TBool, LLOf(1)), Deref("pb"), FunctionCall("f", <<>>),
              Index("ab", <<Designator("i")>>),
              BinaryOp("opLessThan", Designator("x"), K(1)),
              UnaryOp("opNot", Designator("b"))}
BoolSmall == {Designator("b"), FunctionCall("f", <<>>)}
BoolPairs(S) == {BinaryOp(op, l, r) : op \in {"opAnd", "opOr"}, l \in S, r \in S}
BoolExprs ==
  BoolAtoms \cup BoolPairs(BoolAtoms) \cup {UnaryOp("opNot", a) : a \in BoolAtoms}
  \cup {BinaryOp(op, l, r) : op \in {"opAnd", "opOr"}, l \in BoolPairs(BoolSmall), r \in BoolSmall}
  \cup {BinaryOp(op, l, r) : op \in {"opAnd", "opOr"}, l \in BoolSmall, r \in BoolPairs(BoolSmall)}
  \cup {UnaryOp("opNot", a) : a \in BoolPairs(BoolSmall)}
  \cup {BinaryOp("opEqual", Designator("b"), a) : a \in BoolPairs(BoolSmall)}
SetX(n) == StatAssign(Designator("x"), K(n))
BoolTrees ==
  {Module(<<StatAssign(Designator("b"), e)>>) : e \in BoolExprs}
  \cup {Module(<<StatIf(e, <<SetX(1)>>, <<SetX(2)>>)>>) : e \in BoolExprs}
  \cup {Module(<<StatWhile(e, <<StatAssign(Designator("b"), Constant(TBool, LLOf(0)))>>)>>) :
          e \in BoolAtoms}
  \cup {Module(<<StatCall(FunctionCall("h", <<Designator("x"), e>>))>>) :
          e \in BoolPairs(BoolSmall)}

\* array elements of rank 1 to 3, read and written, with too few and too
\* many indices as well
Indices == {Designator("i"), Designator("x"), K(2)}
ArrayExprs ==
  {Index(s, <<j>>) : s \in {"a1", "ab"}, j \in Indices \cup {BinaryOp("opAdd", Designator("i"), K(1))}}
  \cup {Index(s, <<j, k>>) : s \in {"a2", "pa2"}, j \in Indices, k \in Indices}
  \cup {Index("a3", <<j, k, l>>) : j \in Indices, k \in {Designator("x"), K(1)}, l \in Indices}
  \cup {Index("a1", <<Index("a1", <<Designator("i")>>)>>),
        Index("a2", <<Designator("i")>>), Index("a1", <<K(1), K(2)>>),
        Index("x", <<K(1)>>), Index("a1", <<Designator("b")>>)}
ArrayTrees ==
  {Module(<<StatAssign(LhsFor(e), e)>>) : e \in ArrayExprs}
  \cup {Module(<<StatAssign(e, Constant(GetType(e), LLOf(1)))>>) : e \in ArrayExprs}
  \cup {Module(<<StatAssign(Index("a1", <<Designator("i")>>), r)>>) :
          r \in {FunctionCall("g", <<Designator("x")>>), BinaryOp("opAdd", Designator("x"), K(1)),
                 Index("a2", <<Designator("x"), K(1)>>), UnaryOp("opNeg", Designator("x"))}}

\* statements: nestings of If, While, Break and Return, with statements
\* that fail their check at every position
BadAssign == StatAssign(Designator("x"), Designator("b"))
BadCall == StatCall(FunctionCall("g", <<>>))
Bodies == SeqsUpTo({SetX(1), BadAssign, StatBreak}, MaxBody)
Inner == SeqsUpTo({SetX(1), StatBreak, StatReturn(TNull, NoNode)}, 1)
Conds == {Designator("b"), BinaryOp("opAnd", Designator("b"), FunctionCall("f", <<>>))}
StatTrees ==
  {Module(<<StatIf(c, ib, eb)>>) : c \in {Designator("b"), Designator("x")},
                                   ib \in Bodies, eb \in Bodies}
  \cup {Module(<<StatWhile(c, b)>>) : c \in {Designator("b"), Designator("x")}, b \in Bodies}
  \cup {Module(<<StatWhile(c, <<StatIf(d, ib, eb)>>)>>) :
          c \in Conds, d \in Conds, ib \in Inner, eb \in Inner}
  \cup {Module(<<StatIf(c, <<StatWhile(d, b)>>, eb)>>) :
          c \in Conds, d \in Conds, b \in Inner, eb \in Inner}
  \cup {Module(<<StatWhile(Designator("b"), <<StatWhile(c, b), StatBreak>>)>>) :
          c \in Conds, b \in Inner}

\* scopes: statement lists and nested scopes that fail at every position
IfBadElse == StatIf(Designator("b"), <<>>, <<SetX(1), BadCall>>)
GoodProc == Scope(TInt, <<StatReturn(TInt, Designator("x"))>>, <<>>)
BadProc == Scope(TInt, <<StatReturn(TInt, NoNode)>>, <<>>)
BadProc2 == Scope(TNull, <<StatReturn(TNull, Designator("x"))>>, <<>>)
ScopeTrees ==
  {Scope(TNull, ss, ch) :
     ss \in SeqsUpTo({SetX(1), BadAssign, BadCall, IfBadElse}, MaxStmts),
     ch \in {<<>>, <<GoodProc>>, <<BadProc, BadProc2>>, <<GoodProc, BadProc2, BadProc>>}}

\* returns: with and without an expression, of every type, in a module and
\* in procedures with and without a return type
ReturnExprs == {NoNode, Designator("x"), Designator("b"), Designator("c"), K(1),
                BinaryOp("opAdd", Designator("x"), Designator("b")),
                Constant(TChar, LLOf(256)), FunctionCall("g", <<Designator("x")>>),
                Designator("a1")}
ReturnTrees ==
  {Scope(TNull, <<>>, <<Scope(st, <<StatReturn(st, e)>>, <<>>)>>) :
     st \in {TNull, TInt, TBool, TChar}, e \in ReturnExprs}
  \cup {Module(<<StatReturn(TNull, e)>>) : e \in ReturnExprs}

\* calls: of procedures without, with one and with two parameters, with
\* too few and too many arguments, arguments that fail their own check and
\* arguments of another type than the parameter's
Args == {Designator("x"), Designator("b"), K(1), Designator("c"),
         BinaryOp("opAdd", Designator("x"), Designator("b"))}
Calls == {FunctionCall(s, a) : s \in {"f", "g", "h", "q"}, a \in SeqsUpTo(Args, MaxArgs)}
CallTrees ==
  {Module(<<StatCall(c)>>) : c \in Calls}
  \cup {Module(<<StatAssign(LhsFor(c), c)>>) : c \in {d \in Calls : d.sym \in {"f", "g"}}}
  \cup {Module(<<StatCall(FunctionCall("g", <<c>>))>>) : c \in {d \in Calls : d.sym = "g"}}

\* constants: of every type, at, next to and far from the ends of the ranges
ConstValues == {LL(-2, 2147483647), LL(-1, 0), LL(-1, 2147483647), LL(0, 0), LL(0, 1), LL(0, 2),
                LL(0, 255), LL(0, 256), LL(0, 2147483647), LL(1, 0), LL(2, 0), LL(2, 1),
                LL(-2, 0), LL(-2, 1)}
ConstTypes == {TInt, TChar, TBool, TNull, TPtr(TInt), TArr(2, TChar), NoType}
Constants == {Constant(t, v) : t \in ConstTypes, v \in ConstValues}
ConstTrees ==
  {Module(<<StatAssign(LhsFor(k), k)>>) : k \in Constants}
  \cup {Scope(TNull, <<>>, <<Scope(TInt, <<StatReturn(TInt, k)>>, <<>>)>>) :
          k \in {c \in Constants : c.type = TInt}}

\* array designators of arrays of rank 1 to 3, directly and through a
\* pointer, with no index up to one index more than the rank
RankExprs ==
  {Index(s, idx) : s \in {"a1", "a2", "a3", "pa2", "ab"},
                   idx \in SeqsUpTo({Designator("i"), K(1)}, MaxIdx)}
RankTrees ==
  {Module(<<StatAssign(Designator("x"), e)>>) : e \in RankExprs}
  \cup {Module(<<StatAssign(e, K(1))>>) : e \in RankExprs}

\* breaks: in a loop, in nested loops and under one and two levels of If
\* inside them, after a loop, and outside every loop
BreakIf ==
  StatIf(Designator("b"),
         <<StatIf(FunctionCall("f", <<>>), <<StatBreak>>, <<SetX(1)>>)>>, <<StatBreak>>)
CountUp == StatAssign(Designator("i"), BinaryOp("opAdd", Designator("i"), K(1)))
BreakLoops ==
  {StatWhile(Designator("b"), <<BreakIf>>),
   StatWhile(Designator("b"), <<StatWhile(FunctionCall("f", <<>>), <<BreakIf>>), BreakIf>>),
   StatWhile(Designator("b"),
             <<StatIf(Designator("b"),
                      <<StatWhile(Designator("b"), <<StatBreak>>)>>, <<StatBreak>>)>>),
   StatWhile(BinaryOp("opLessThan", Designator("i"), Designator("x")),
             <<CountUp, StatIf(BinaryOp("opEqual", Designator("i"), K(1)),
                               <<StatBreak>>, <<>>)>>)}
BreakTrees ==
  {Module(<<w>>) : w \in BreakLoops}
  \cup {Module(<<w, SetX(2)>>) : w \in BreakLoops}
  \cup {Module(<<w, StatBreak>>) : w \in BreakLoops}
  \cup {Module(ss) : ss \in {<<StatBreak>>, <<BreakIf>>, <<SetX(1), StatBreak>>,
                             <<StatIf(Designator("b"), <<>>, <<StatBreak>>)>>,
                             <<StatIf(Designator("b"), <<SetX(1)>>, <<>>), BreakIf>>}}

\* calls whose arguments are calls, array elements and operations, up to
\* three arguments and three levels of calls; with and without a result
CallArgs == {FunctionCall("g", <<Designator("x")>>), Index("a1", <<Designator("i")>>),
             BinaryOp("opAdd", Designator("x"), K(1)), K(2),
             Index("a1", <<FunctionCall("g", <<Designator("i")>>)>>)}
BoolArgs == {Designator("b"), FunctionCall("f", <<>>), Index("ab", <<Designator("i")>>),
             BinaryOp("opAnd", Designator("b"), FunctionCall("f", <<>>))}
GofG == FunctionCall("g", <<FunctionCall("g", <<Designator("x")>>)>>)
NestedCalls ==
  {StatCall(FunctionCall("h", <<a, e>>)) : a \in CallArgs \cup {GofG}, e \in BoolArgs}
  \cup {StatAssign(Designator("x"), FunctionCall("g", <<a>>)) : a \in CallArgs \cup {GofG}}
  \cup {StatAssign(Designator("x"), FunctionCall("r", <<a, FunctionCall("r", <<K(1), a, GofG>>), d>>)) :
          a \in {K(2), FunctionCall("g", <<Designator("x")>>)},
          d \in {Designator("i"), Index("a1", <<Designator("i")>>)}}
  \cup {StatAssign(Index("a2", <<FunctionCall("g", <<Designator("x")>>), GofG>>),
                   FunctionCall("g", <<Index("a2", <<Designator("i"), GofG>>)>>))}
NestedCallTrees == {Module(<<s>>) : s \in NestedCalls}

\* arithmetic: operations on constants and a variable, nested to the left,
\* to the right and on both sides
ArithLeaves == {K(1), K(2), K(3), Designator("x")}
ArithPairs(S, T) == {BinaryOp(op, l, r) : op \in {"opAdd", "opSub", "opMul"}, l \in S, r \in T}
ArithSmall == ArithPairs({K(2), Designator("x")}, {K(3), Designator("x")})
ArithExprs ==
  ArithPairs(ArithLeaves, ArithLeaves)
  \cup ArithPairs({K(1), Designator("x")}, ArithSmall)
  \cup ArithPairs(ArithSmall, {K(1)})
  \cup ArithPairs({BinaryOp("opMul", K(2), K(3))}, ArithPairs({Designator("x")}, {K(3)}))
  \cup {BinaryOp("opAdd", BinaryOp("opMul", BinaryOp("opSub", Designator("x"), K(1)), K(2)),
                 UnaryOp("opNeg", BinaryOp("opMul", K(2), K(3))))}
ArithTrees == {Module(<<StatAssign(Designator("x"), e)>>) : e \in ArithExprs}
\* x := 1 + 2 * 3
OnePlusTwoTimesThree ==
  Module(<<StatAssign(Designator("x"),
                      BinaryOp("opAdd", K(1), BinaryOp("opMul", K(2), K(3))))>>)

Programs ==
  OperatorTrees \cup BoolTrees \cup ArrayTrees \cup StatTrees \cup ScopeTrees \cup ReturnTrees
  \cup CallTrees \cup ConstTrees \cup RankTrees \cup BreakTrees
  \cup NestedCallTrees \cup ArithTrees

\* the data symbols a scope's statements name
UsedSyms(sc) ==
  {n.n.sym : n \in {m \in ScopeNodes(sc) :
                      m.n.node \in {"Designator", "ArrayDesignator", "FunctionCall"}}}
  \cap DataSyms

\* the stores a run may start from: every cell the code names holds a value
\* of its type's range, the others 0
InitStores(sc) ==
  LET used == UsedSyms(sc)
      fs == {f \in [used -> 0..MaxVal] : \A s \in used \cap BoolSyms : f[s] <= 1}
  IN {[s \in DataSyms |-> IF s \in used THEN f[s] ELSE 0] : f \in fs}

(***************************************************************************)
(* The driver: type check, then lowering of a type-clean tree, then a run  *)
(* of the emitted code from some store, or a walk along its control flow.  *)
(***************************************************************************)
MaxSteps == 40

VARIABLES ast, pc, tc, cb, run, call, strIdx, strs, symtab
vars == <<ast, pc, tc, cb, run, call, strIdx, strs, symtab>>
\* the parser's side: the last call made on the node under construction,
\* CAstStringConstant::_idx, the string constants constructed so far and the
\* symbol tables of the scopes
parser == <<call, strIdx, strs, symtab>>
NoCall == [op |-> "none"]
NoSymbols == [s \in {"module", "proc"} |-> {}]

Init ==
  /\ ast \in Programs
  /\ pc = "parsed"
  /\ tc = Pass
  /\ cb = NewCodeBlock
  /\ run = NoRun
  /\ call = NoCall /\ strIdx = 0 /\ strs = <<>> /\ symtab = NoSymbols

TypeCheck ==
  /\ pc = "parsed"
  /\ tc' = ScopeTypeCheck(ast, <<>>)
  /\ pc' = "checked"
  /\ UNCHANGED <<ast, cb, run>>
  /\ UNCHANGED parser

\* In a tree that has passed its check every array designator has as many
\* indices as its array has dimensions, so the lowering fills in no index
\* and leaves the tree as it is.
ToTac ==
  /\ pc = "checked"
  /\ tc.ok
  /\ cb' = ScopeToTac(NewCodeBlock, ast, <<>>)
  /\ pc' = "lowered"
  /\ UNCHANGED <<ast, tc, run>>
  /\ UNCHANGED parser

Start ==
  /\ pc = "lowered"
  /\ ~cb.aborted
  /\ \E st \in InitStores(ast) : run' = StartRun(cb, st)
  /\ pc' = "running"
  /\ UNCHANGED <<ast, tc, cb>>
  /\ UNCHANGED parser

Step ==
  /\ pc = "running"
  /\ run.ip <= Len(cb.instrs)
  /\ run.steps < MaxSteps
  /\ run' = Exec(cb, run)
  /\ UNCHANGED <<ast, pc, tc, cb>>
  /\ UNCHANGED parser

Enter ==
  /\ pc = "lowered"
  /\ ~cb.aborted
  /\ run' = [NoRun EXCEPT !.ip = 1, !.via = "walk"]
  /\ pc' = "walking"
  /\ UNCHANGED <<ast, tc, cb>>
  /\ UNCHANGED parser

Walk ==
  /\ pc = "walking"
  /\ run.ip <= Len(cb.instrs)
  /\ \E n \in Succ(cb, run.ip) :
       run' = [run EXCEPT !.ip = n, !.written = @ \cup Writes(cb.instrs[run.ip])]
  /\ UNCHANGED <<ast, pc, tc, cb>>
  /\ UNCHANGED parser

Next == TypeCheck \/ ToTac \/ Start \/ Step \/ Enter \/ Walk

Spec == Init /\ [][Next]_vars

(***************************************************************************)
(* The parser's use of the nodes: it constructs a node, adds the indices   *)
(* of an array designator and completes them, and the node's methods are   *)
(* called on what it has built.  A failed assert() ends the process.       *)
(***************************************************************************)
\* CAstSpecialOp::CAstSpecialOp.  _oper is initialised from the parameter
\* before the body runs; the first assert's last disjunct, (oper = opCast),
\* assigns the parameter and is true, opCast not being the enumeration's 0.
AssignedOper(oper) == IF oper \in {"opAddress", "opDeref"} THEN oper ELSE "opCast"
CAstSpecialOp(oper, e, type) ==
  IF e = NoNode THEN NoNode
  ELSE IF ~(\/ AssignedOper(oper) # "opCast" /\ type = NoType
            \/ AssignedOper(oper) = "opCast" /\ type # NoType) THEN NoNode
  ELSE SpecialOp(oper, e, type)

\* _idx after CAstArrayDesignator::ToTac has filled the empty indices
IndicesAfterToTac(e) == FillIndices(e.idx, ArrayTypeOf(e), 0)

ArraySyms == {"a1", "a2", "a3", "pa2", "ab", "x"}
NewIndices == {Designator("i"), K(1)}
Tags == BinOps \cup {"opNeg", "opPos", "opNot", "opAssign", "opAddress", "opDeref", "opCast",
                     "opGoto", "opNop"}
\* what a call finds: the node's _done, its number of indices and its type
Called(op) ==
  [op |-> op, done |-> ast.done, nidx |-> Len(ast.idx), type |-> GetType(ast)]
IsDesignator == pc = "parsing" /\ ast.node = "ArrayDesignator"

BuildInit ==
  /\ ast = NoNode
  /\ pc = "parsing"
  /\ tc = Pass
  /\ cb = NewCodeBlock
  /\ run = NoRun
  /\ call = NoCall /\ strIdx = 0 /\ strs = <<>> /\ symtab = NoSymbols

NewArrayDesignator ==
  /\ pc = "parsing" /\ ast = NoNode
  /\ \E s \in ArraySyms : ast' = ArrayDesignator(s, <<>>, FALSE)
  /\ call' = [op |-> "CAstArrayDesignator"]
  /\ UNCHANGED <<pc, tc, cb, run, strIdx, strs, symtab>>

\* an AddIndex that does not look at _done
AddIndexAlways ==
  /\ IsDesignator
  /\ Len(ast.idx) < MaxNew
  /\ call' = Called("AddIndex")
  /\ \E idx \in NewIndices : ast' = [ast EXCEPT !.idx = Append(@, idx)]
  /\ UNCHANGED <<pc, tc, cb, run, strIdx, strs, symtab>>

AddIndex ==
  /\ IsDesignator
  /\ Len(ast.idx) < MaxNew
  /\ call' = Called("AddIndex")
  /\ \E idx \in NewIndices :
       IF ast.done THEN pc' = "aborted" /\ UNCHANGED ast
       ELSE ast' = [ast EXCEPT !.idx = Append(@, idx)] /\ UNCHANGED pc
  /\ UNCHANGED <<tc, cb, run, strIdx, strs, symtab>>

IndicesComplete ==
  /\ IsDesignator
  /\ call' = Called("IndicesComplete")
  /\ IF ast.done THEN pc' = "aborted" /\ UNCHANGED ast
     ELSE ast' = [ast EXCEPT !.done = TRUE] /\ UNCHANGED pc
  /\ UNCHANGED <<tc, cb, run, strIdx, strs, symtab>>

NodeGetType ==
  /\ IsDesignator
  /\ call' = Called("GetType")
  /\ UNCHANGED <<ast, pc, tc, cb, run, strIdx, strs, symtab>>

NodeTypeCheck ==
  /\ IsDesignator
  /\ call' = Called("TypeCheck")
  /\ tc' = ExprTypeCheck(ast, <<>>)
  /\ pc' = IF tc'.abort THEN "aborted" ELSE pc
  /\ UNCHANGED <<ast, cb, run, strIdx, strs, symtab>>

\* the check of a module whose one statement assigns to the designator
InScopeTypeCheck ==
  /\ IsDesignator
  /\ call' = Called("CAstScope::TypeCheck")
  /\ tc' = ScopeTypeCheck(Module(<<StatAssign(ast, K(1))>>), <<>>)
  /\ pc' = IF tc'.abort THEN "aborted" ELSE pc
  /\ UNCHANGED <<ast, cb, run, strIdx, strs, symtab>>

NodeToTac ==
  /\ IsDesignator
  /\ call' = Called("ToTac")
  /\ cb' = ExprToTac(NewCodeBlock, ast, <<>>).cb
  /\ IF cb'.aborted THEN pc' = "aborted" /\ UNCHANGED ast
     ELSE ast' = [ast EXCEPT !.idx = IndicesAfterToTac(ast)] /\ UNCHANGED pc
  /\ UNCHANGED <<tc, run, strIdx, strs, symtab>>

NodeToTacJump ==
  /\ IsDesignator
  /\ call' = Called("ToTacJump")
  /\ cb' = ExprToTacJ(NewCodeBlock, ast, <<>>, TacLabel(1, "ltrue"), TacLabel(2, "lfalse")).cb
  /\ IF cb'.aborted THEN pc' = "aborted" /\ UNCHANGED ast
     ELSE ast' = [ast EXCEPT !.idx = IndicesAfterToTac(ast)] /\ UNCHANGED pc
  /\ UNCHANGED <<tc, run, strIdx, strs, symtab>>

NewSpecialOp ==
  /\ pc = "parsing" /\ ast = NoNode
  /\ \E oper \in Tags, e \in {NoNode, Designator("x")}, type \in {NoType, TInt} :
       /\ call' = [op |-> "CAstSpecialOp", oper |-> oper, e |-> e, type |-> type]
       /\ ast' = CAstSpecialOp(oper, e, type)
       /\ pc' = IF ast' = NoNode THEN "aborted" ELSE "built"
  /\ UNCHANGED <<tc, cb, run, strIdx, strs, symtab>>

BuildNext ==
  \/ NewArrayDesignator \/ AddIndex \/ IndicesComplete \/ NodeGetType \/ NodeTypeCheck
  \/ InScopeTypeCheck \/ NodeToTac \/ NodeToTacJump \/ NewSpecialOp

SpecBuild == BuildInit /\ [][BuildNext]_vars

(***************************************************************************)
(* String constants.  A literal is the sequence of the characters between  *)
(* its quotes; CToken::unescape turns it into the characters it stands     *)
(* for, given here by their codes, an escaped NUL being the zero byte.     *)
(***************************************************************************)
Code(c) ==
  CASE c = "a" -> 97
    [] c = "b" -> 98
    [] c = "n" -> 110
    [] c = "t" -> 116
    [] c = "0" -> 48
    [] OTHER -> 92
Escaped(c) ==
  CASE c = "n" -> 10
    [] c = "t" -> 9
    [] c = "0" -> 0
    [] c = "\\" -> 92
    [] OTHER -> 63
RECURSIVE unescape(_), strlen(_), Flat(_)
unescape(v) ==
  IF v = <<>> THEN <<>>
  ELSE IF Head(v) = "\\" /\ Len(v) >= 2
  THEN <<Escaped(v[2])>> \o unescape(SubSeq(v, 3, Len(v)))
  ELSE <<Code(Head(v))>> \o unescape(Tail(v))
\* strlen(s.c_str()): the characters before the first zero byte
strlen(cs) == IF cs = <<>> \/ Head(cs) = 0 THEN 0 ELSE 1 + strlen(Tail(cs))

\* the symbol a string constant makes with the _idx it finds: ++_idx is the
\* number in its name
StringSymbolOf(n, type, value) ==
  [name |-> "_str_" \o ToString(n), type |-> type, data |-> value]
\* a constructor that numbers the symbol before it counts
StringConstantCountingAfter(value, s, idx) ==
  [node |-> "StringConstant", value |-> value, scope |-> s,
   type |-> TArr(strlen(unescape(value)) + 1, TChar),
   sym |-> StringSymbolOf(idx, TArr(strlen(unescape(value)) + 1, TChar), value)]
\* CAstStringConstant::CAstStringConstant(t, value, s) with _idx = idx
StringConstant(value, s, idx) ==
  [node |-> "StringConstant", value |-> value, scope |-> s,
   type |-> TArr(strlen(unescape(value)) + 1, TChar),
   sym |-> StringSymbolOf(idx + 1, TArr(strlen(unescape(value)) + 1, TChar), value)]
\* CSymtab::AddSymbol
AddSymbol(table, sym) ==
  IF \E o \in table : o.name = sym.name THEN table ELSE table \cup {sym}
StringConstantToTac(e) == TacName(e.sym.name)

Flat(us) == IF us = <<>> THEN <<>> ELSE Head(us) \o Flat(Tail(us))
Units == {<<"a">>, <<"\\", "0">>}
Literals ==
  {Flat(us) : us \in SeqsUpTo(Units, MaxLit)}
  \cup {<<"\\", "n">>, <<"\\", "\\", "0">>, <<"b", "\\", "t", "\\", "0", "a">>}
Scopes == {"module", "proc"}

StringsInit ==
  /\ ast = NoNode
  /\ pc = "parsing"
  /\ tc = Pass
  /\ cb = NewCodeBlock
  /\ run = NoRun
  /\ call = NoCall /\ strIdx = 0 /\ strs = <<>> /\ symtab = NoSymbols

NewStringConstant ==
  /\ Len(strs) < MaxStrs
  /\ \E value \in Literals, s \in Scopes :
       /\ strs' = Append(strs, StringConstant(value, s, strIdx))
       /\ symtab' = [symtab EXCEPT ![s] = AddSymbol(@, strs'[Len(strs')].sym)]
       /\ call' = [op |-> "CAstStringConstant", s |-> s]
  /\ strIdx' = strIdx + 1
  /\ UNCHANGED <<ast, pc, tc, cb, run>>

StringToTac ==
  /\ \E n \in 1..Len(strs) :
       call' = [op |-> "ToTac", n |-> n, addr |-> StringConstantToTac(strs[n])]
  /\ UNCHANGED <<ast, pc, tc, cb, run, strIdx, strs, symtab>>

StringsNext == NewStringConstant \/ StringToTac

SpecStrings == StringsInit /\ [][StringsNext]_vars

(***************************************************************************)
(* Properties of the type check.                                           *)
(***************************************************************************)
Checked == pc # "parsed"
StatKinds == {"StatAssign", "StatCall", "StatReturn", "StatIf", "StatWhile", "StatBreak"}
Front(q) == SubSeq(q, 1, Len(q) - 1)

\* the things a scope checks, in its order: its statements, then its scopes
NUnits(sc) == Len(sc.statseq) + Len(sc.children)
UnitCheck(sc, k) ==
  IF k <= Len(sc.statseq) THEN StatTypeCheck(sc.statseq[k], <<100 + k>>)
  ELSE ScopeTypeCheck(sc.children[k - Len(sc.statseq)], <<300 + (k - Len(sc.statseq))>>)
FirstFailure(sc) ==
  {k \in 1..NUnits(sc) : ~UnitCheck(sc, k).ok /\ \A j \in 1..(k - 1) : UnitCheck(sc, j).ok}

\* C9: a scope's check that returns true has written neither the token nor
\* the message; one that returns false has written them exactly once, and
\* what it wrote is the diagnostic of the first statement or nested scope, in
\* the order statements then scopes, whose own check fails.
C9_FirstFailureWins ==
  Checked =>
    /\ tc.ok => tc.w = <<>> /\ FirstFailure(ast) = {}
    /\ ~tc.ok => /\ Len(tc.w) = 1
                 /\ \E k \in FirstFailure(ast) : tc.w = UnitCheck(ast, k).w

\* a failing statement is followed by another failing statement and by a
\* failing scope, and the first one's diagnostic is the one written
C9_Witness ==
  /\ pc = "checked" /\ ~tc.ok
  /\ Len(ast.statseq) = 3 /\ Len(ast.children) = 2
  /\ UnitCheck(ast, 1).ok /\ ~UnitCheck(ast, 2).ok /\ ~UnitCheck(ast, 3).ok
  /\ ~UnitCheck(ast, 4).ok
  /\ tc.w = UnitCheck(ast, 2).w

\* what the rules ask of the operand types
LeftTypes(op) ==
  CASE op \in ArithOps -> {TInt}
    [] op \in {"opAnd", "opOr"} -> {TBool}
    [] op \in {"opEqual", "opNotEqual"} -> {TBool, TChar, TInt}
    [] OTHER -> {TChar, TInt}
LeftFits(op, lt) == \E t \in LeftTypes(op) : Match(lt, t)
RightFits(op, lt, rt) ==
  CASE op \in ArithOps -> Match(rt, TInt)
    [] op \in {"opAnd", "opOr"} -> Match(rt, TBool)
    [] OTHER -> Match(rt, lt)
BinaryOps(sc) ==
  {n \in AllNodes(sc, <<>>) :
     /\ n.n.node = "BinaryOp"
     /\ ExprTypeCheck(n.n.left, n.p \o <<0>>).ok
     /\ ExprTypeCheck(n.n.right, n.p \o <<1>>).ok}
\* r is the result of the check of the BinaryOp n
BinaryOpChecked(n, r, lt, rt) ==
  /\ r.ok <=> (LeftFits(n.n.oper, lt) /\ RightFits(n.n.oper, lt, rt))
  /\ ~LeftFits(n.n.oper, lt) => Len(r.w) = 1 /\ r.w[1].t = n.p \o <<0>>
  /\ (~r.ok /\ n.p = <<101, 1>>) => tc = r

\* C10: a BinaryOp whose operands both pass their checks passes its own
\* exactly when the operand types fit its operator (int and int for the
\* arithmetic ones, bool and bool for And/Or, a left of bool, char or int
\* and a right matching the left for Eq/Neq, a left of char or int and a
\* right matching the left for the orderings); with a left operand of the
\* wrong type the token written is the left operand's, whatever the right.
C10_BinaryOpTypeRules ==
  Checked =>
    \A n \in BinaryOps(ast) :
      BinaryOpChecked(n, ExprTypeCheck(n.n, n.p), GetType(n.n.left), GetType(n.n.right))

\* both operands of an addition are of the wrong type, and the token
\* reported is the left one's
C10_Witness ==
  /\ pc = "checked" /\ ~tc.ok
  /\ \E n \in BinaryOps(ast) :
       /\ n.p = <<101, 1>> /\ n.n.oper = "opAdd"
       /\ ~Match(GetType(n.n.left), TInt) /\ ~Match(GetType(n.n.right), TInt)
       /\ tc.w = <<[t |-> <<101, 1, 0>>,
                    msg |-> "expected integer type expression in left operand"]>>

Returns(sc) == {n \in AllNodes(sc, <<>>) : n.n.node = "StatReturn"}
Diagnostic(t, msg) == <<[t |-> t, msg |-> msg]>>
\* r is the result of the check of the Return n
ReturnChecked(n, r, st, e) ==
  /\ (Match(st, TNull) /\ e # NoNode) =>
       ~r.ok /\ r.w = Diagnostic(n.p \o <<0>>, "superfluous expression after return.")
  /\ (Match(st, TNull) /\ e = NoNode) => r.ok
  /\ (~Match(st, TNull) /\ e = NoNode) =>
       ~r.ok /\ r.w = Diagnostic(n.p, "expression expected after return.")
  /\ (~Match(st, TNull) /\ e # NoNode) =>
       (r.ok <=> (ExprTypeCheck(e, n.p \o <<0>>).ok /\ Match(st, GetType(e))))
  /\ (NUnits(ast) = 1 /\ n.p \in {<<101>>, <<301, 101>>}) => tc = r

\* C11: in a scope whose type matches null a Return with an expression
\* fails with "superfluous expression after return." and one without
\* succeeds; in any other scope a Return without an expression fails with
\* "expression expected after return." and one with an expression succeeds
\* exactly when the expression passes its check and the scope's type matches
\* the expression's type.
C11_ReturnTypeCheck ==
  Checked => \A n \in Returns(ast) : ReturnChecked(n, StatTypeCheck(n.n, n.p), n.n.scopeType, n.n.expr)

\* a function of integer type returns a boolean: the expression passes its
\* own check and the return is rejected for the mismatch
C11_Witness ==
  /\ pc = "checked" /\ ~tc.ok
  /\ \E n \in Returns(ast) :
       /\ n.p = <<301, 101>> /\ n.n.scopeType = TInt /\ n.n.expr = Designator("b")
       /\ tc.w = Diagnostic(<<301, 101, 0>>, "return type mismatch.")

FunctionCalls(sc) == {n \in AllNodes(sc, <<>>) : n.n.node = "FunctionCall"}
StatCalls(sc) == {n \in AllNodes(sc, <<>>) : n.n.node = "StatCall"}
ArgsPass(n) == \A i \in 1..Len(n.n.arg) : ExprTypeCheck(n.n.arg[i], n.p \o <<i - 1>>).ok
ParamFits(pt, at) == pt # NoType /\ Match(pt, at)
ParamsFit(n) ==
  \A i \in 1..Len(n.n.arg) : ParamFits(ProcParams(n.n.sym)[i], GetType(n.n.arg[i]))
\* r is the result of the check of the FunctionCall n
FunctionCallChecked(n, r, nparams, nargs) ==
  /\ r.ok <=> (nparams = nargs /\ ArgsPass(n) /\ ParamsFit(n))
  /\ nparams # nargs =>
       r.w = Diagnostic(n.p, "number of arguments does not match the number of parameters")
  /\ (NUnits(ast) = 1 /\ n.p = <<101, 0>> /\ <<101>> \in {m.p : m \in StatCalls(ast)}) => tc = r

\* C12: a FunctionCall passes its check exactly when it has as many
\* arguments as its procedure has parameters, every argument passes its own
\* check and every parameter's declared type matches its argument's type; a
\* Call statement's check is its call's; with a wrong number of arguments
\* the one diagnostic written is the call's "number of arguments does not
\* match the number of parameters", whatever the arguments' own checks say.
C12_CallTypeCheck ==
  Checked =>
    /\ \A n \in FunctionCalls(ast) :
         FunctionCallChecked(n, ExprTypeCheck(n.n, n.p), Len(ProcParams(n.n.sym)), Len(n.n.arg))
    /\ \A n \in StatCalls(ast) :
         StatTypeCheck(n.n, n.p) = ExprTypeCheck(n.n.call, n.p \o <<0>>)

\* a call with too many arguments, the first of which fails its own check:
\* the diagnostic is the one of the count
C12_Witness ==
  /\ pc = "checked" /\ ~tc.ok /\ NUnits(ast) = 1
  /\ \E n \in FunctionCalls(ast) :
       /\ n.p = <<101, 0>> /\ n.n.sym = "g" /\ Len(n.n.arg) = 2
       /\ ~ExprTypeCheck(n.n.arg[1], n.p \o <<0>>).ok
       /\ tc.w = Diagnostic(n.p, "number of arguments does not match the number of parameters")

ConstantNodes(sc) == {n \in AllNodes(sc, <<>>) : n.n.node = "Constant"}
\* lo <= v <= hi, on 64-bit values
Within(v, lo, hi) == ~LLLess(v, lo) /\ ~LLLess(hi, v)
Fits(t, v) ==
  \/ t = TInt /\ Within(v, LL(-1, 0), LL(0, 2147483647))
  \/ t = TChar /\ Within(v, LL(0, 0), LL(0, 255))
  \/ t = TBool /\ v \in {LL(0, 0), LL(0, 1)}
\* the values the claim names: -2^31, 2^31 - 1, 0, 255 and the ones next to them
Accepted == {Constant(TInt, LL(-1, 0)), Constant(TInt, LL(0, 2147483647)),
             Constant(TChar, LL(0, 0)), Constant(TChar, LL(0, 255))}
Refused == {Constant(TInt, LL(-2, 2147483647)), Constant(TInt, LL(1, 0)),
            Constant(TChar, LL(-1, 2147483647)), Constant(TChar, LL(0, 256))}
\* r is the result of the check of the Constant n
ConstantChecked(n, r, t, v) ==
  /\ r.ok <=> Fits(t, v)
  /\ n.n \in Accepted => r.ok
  /\ n.n \in Refused => ~r.ok
  /\ ~r.ok => Len(r.w) = 1 /\ r.w[1].t = n.p
  /\ (~r.ok /\ NUnits(ast) = 1 /\ n.p = <<101, 1>>
      /\ ExprTypeCheck(ast.statseq[1].lhs, <<101, 0>>).ok) => tc = r

\* C13: a Constant passes its check exactly when its type is int and its
\* 64-bit value lies in [-2^31, 2^31 - 1], or its type is char and the value
\* lies in [0, 255], or its type is bool and the value is 0 or 1; the values
\* -2^31, 2^31 - 1, 0 and 255 are accepted and -2^31 - 1, 2^31, -1 and 256
\* are rejected, as is a constant of any other type.
C13_ConstantRanges ==
  Checked => \A n \in ConstantNodes(ast) : ConstantChecked(n, ExprTypeCheck(n.n, n.p), n.n.type, n.n.value)

\* the integer constant 2^31, whose low 32 bits are in range, is rejected
C13_Witness ==
  /\ pc = "checked" /\ ~tc.ok
  /\ \E n \in ConstantNodes(ast) :
       /\ n.p = <<101, 1>> /\ n.n = Constant(TInt, LL(1, 0))
       /\ tc.w = Diagnostic(n.p, "invalid value for integer type constant")

RECURSIVE Rank(_), Peel(_, _)
\* the number of dimensions of a type, and the type under its first k
Rank(t) == IF IsArray(t) THEN 1 + Rank(t.inner) ELSE 0
Peel(t, k) == IF k = 0 THEN t ELSE Peel(t.inner, k - 1)
Unwrapped(t) == IF IsPointer(t) THEN t.base ELSE t
\* the closed array designators of arrays whose indices all check as int
ArrayDesignatorNodes(sc) ==
  {n \in AllNodes(sc, <<>>) :
     /\ n.n.node = "ArrayDesignator" /\ n.n.done
     /\ IsArray(Unwrapped(SymType(n.n.sym)))
     /\ \A i \in 1..Len(n.n.idx) :
          /\ ExprTypeCheck(n.n.idx[i], n.p \o <<i - 1>>).ok
          /\ Match(GetType(n.n.idx[i]), TInt)}
\* r is the result of the check of the ArrayDesignator n, t what its GetType
\* returns, for nidx indices into the array type at
ArrayDesignatorChecked(n, r, t, nidx, at) ==
  /\ r.ok <=> nidx = Rank(at)
  /\ nidx < Rank(at) => r.w = Diagnostic(n.p, "Not enough indices")
  /\ nidx > Rank(at) => r.w = Diagnostic(n.p, "Too many indices")
  /\ t = (IF nidx > Rank(at) THEN NoType ELSE Peel(at, nidx))
  /\ (~r.ok /\ NUnits(ast) = 1 /\ n.p = <<101, 0>>) => tc = r

\* C14: an ArrayDesignator of an array of rank R (after one pointer level is
\* unwrapped) whose indices all check as int passes its check exactly when
\* it has R indices; with fewer the diagnostic is "Not enough indices", with
\* more "Too many indices"; its GetType is the type under as many dimensions
\* as it has indices, and NULL when it has more indices than dimensions.
C14_IndicesAndRank ==
  Checked =>
    \A n \in ArrayDesignatorNodes(ast) :
      ArrayDesignatorChecked(n, ExprTypeCheck(n.n, n.p), GetType(n.n), Len(n.n.idx),
                             Unwrapped(SymType(n.n.sym)))

\* a pointer to an array of rank 2 with three indices
C14_Witness ==
  /\ pc = "checked" /\ ~tc.ok
  /\ \E n \in ArrayDesignatorNodes(ast) :
       /\ n.p = <<101, 0>> /\ n.n.sym = "pa2" /\ Len(n.n.idx) = 3
       /\ GetType(n.n) = NoType
       /\ tc.w = Diagnostic(n.p, "Too many indices")

(***************************************************************************)
(* Properties of the emitted code.                                         *)
(***************************************************************************)
Lowered == pc \in {"lowered", "running", "walking"} /\ ~cb.aborted
\* the lowering has just completed: the block does not change after it
JustLowered == pc = "lowered" /\ ~cb.aborted
Running == pc = "running" /\ run.ip <= Len(cb.instrs)
Instrs(code) == 1..Len(code.instrs)
\* the instructions added by the node at p, and by it and its descendants
Own(code, p) == {k \in Instrs(code) : code.instrs[k].at = p}
Under(code, p) == {k \in Instrs(code) : IsPrefix(p, code.instrs[k].at)}
Branches(code) == {k \in Instrs(code) : code.instrs[k].op \in RelOps \cup {"opGoto"}}
LabelSites(code, n) ==
  {k \in Instrs(code) : code.instrs[k].op = "opLabel" /\ code.instrs[k].dst.n = n}

\* C2: in the instruction stream of a type-clean tree whose lowering has
\* completed, the target of every Goto and of every conditional branch is
\* a label added to the stream exactly once.
C2_TargetsAddedOnce ==
  Lowered => \A k \in Branches(cb) : Cardinality(LabelSites(cb, cb.instrs[k].dst.n)) = 1

\* a loop with a Break, a Return and a short-circuit condition has been lowered
C2_Witness ==
  /\ pc = "lowered" /\ ~cb.aborted
  /\ \E k \in Branches(cb) :
       /\ cb.instrs[k].dst.role = "loopEnd"
       /\ cb.instrs[k].at[Len(cb.instrs[k].at)] > 100
  /\ \E k \in Instrs(cb) : cb.instrs[k].op = "opLabel" /\ cb.instrs[k].dst.role = "midLabel"
  /\ \E k \in Instrs(cb) : cb.instrs[k].op = "opLabel" /\ cb.instrs[k].dst.role = "ifLabel"
  /\ \E k \in Instrs(cb) : cb.instrs[k].op = "opReturn"

\* C3: wherever control stands in the emitted code, along a run or along
\* any path of its control flow, the temporaries the instruction there
\* reads have been written on the way.
C3_TempsWrittenBeforeRead ==
  (pc \in {"running", "walking"} /\ run.ip <= Len(cb.instrs)) =>
    Reads(cb.instrs[run.ip]) \subseteq run.written

AndOrs(sc) ==
  {n \in AllNodes(sc, <<>>) : n.n.node = "BinaryOp" /\ n.n.oper \in {"opAnd", "opOr"}}

\* a walk stands at a read of a temporary created inside the right operand
\* of an And or an Or
C3_Witness ==
  /\ pc = "walking" /\ run.ip <= Len(cb.instrs)
  /\ Reads(cb.instrs[run.ip]) # {}
  /\ \E n \in AndOrs(ast) : IsPrefix(n.p \o <<1>>, cb.instrs[run.ip].at)

\* the temporary the materialisation at p assigns, and its labels
Materialised(code, p) ==
  {code.instrs[k].dst : k \in {j \in Own(code, p) : code.instrs[j].op = "opAssign"}}
LabelOf(code, p, role) ==
  {code.instrs[k].dst.n :
     k \in {j \in Own(code, p) : /\ code.instrs[j].op = "opLabel"
                                  /\ code.instrs[j].dst.role = role}}
AtNextLabel ==
  /\ Running
  /\ cb.instrs[run.ip].op = "opLabel"
  /\ cb.instrs[run.ip].dst.role = "nextLabel"

\* C4: when a run reaches the end label of the materialisation of a
\* boolean value, the temporary it returns has been assigned and holds 1 if
\* the run came by the true label and 0 if it came by the false label; it
\* came by one of the two.
C4_MaterialisedIsZeroOrOne ==
  AtNextLabel =>
    /\ Cardinality(Materialised(cb, cb.instrs[run.ip].at)) = 1
    /\ \A t \in Materialised(cb, cb.instrs[run.ip].at) :
         /\ t.a = "temp" /\ t.n \in run.written
         /\ \/ /\ run.lastTF \in LabelOf(cb, cb.instrs[run.ip].at, "trueLabel")
               /\ run.temps[t.n] = 1
            \/ /\ run.lastTF \in LabelOf(cb, cb.instrs[run.ip].at, "falseLabel")
               /\ run.temps[t.n] = 0

\* a run reaches the end label of an And by the false label, with 0
C4_Witness ==
  /\ AtNextLabel
  /\ \E n \in AndOrs(ast) : n.p = cb.instrs[run.ip].at /\ n.n.oper = "opAnd"
  /\ run.lastTF \in LabelOf(cb, cb.instrs[run.ip].at, "falseLabel")
  /\ \A t \in Materialised(cb, cb.instrs[run.ip].at) : run.temps[t.n] = 0

\* the array designators the lowering meets, at the positions it gives
\* them: those inside an index sit in the address tree of the outer one
RECURSIVE ArrayRefs(_, _)
ArrayRefs(e, p) ==
  CASE e.node = "ArrayDesignator" ->
         {[p |-> p, n |-> e]} \cup ArrayRefs(AddressExpr(e), p \o <<900>>)
    [] e.node = "BinaryOp" ->
         ArrayRefs(e.left, p \o <<0>>) \cup ArrayRefs(e.right, p \o <<1>>)
    [] e.node \in {"UnaryOp", "SpecialOp"} -> ArrayRefs(e.operand, p \o <<0>>)
    [] e.node = "FunctionCall" ->
         UNION {ArrayRefs(e.arg[i], p \o <<i - 1>>) : i \in 1..Len(e.arg)}
    [] OTHER -> {}
\* the expressions that statements hold
Roots(sc) ==
  {m \in AllNodes(sc, <<>>) :
     /\ m.n.node \notin StatKinds
     /\ \E q \in AllNodes(sc, <<>>) : q.n.node \in StatKinds /\ q.p = Front(m.p)}
ArrayDesignators(sc) == UNION {ArrayRefs(m.n, m.p) : m \in Roots(sc)}

\* (...((i_0 * DIM(ptr, 2) + i_1) * DIM(ptr, 3) + ...) + i_(k-1))
RECURSIVE Horner(_, _, _, _)
Horner(e, ptr, st, k) ==
  IF k = 1 THEN Eval(e.idx[1], st)
  ELSE Horner(e, ptr, st, k - 1) * DIM(ptr, k) + Eval(e.idx[k], st)
ElementAddress(e, st) ==
  AddrOf(e.sym)
  + Horner(e, AddrOf(e.sym), st, Len(e.idx)) * GetSize(InnermostType(ArrayTypeOf(e)))
  + DOFS(AddrOf(e.sym))

RefsOf(ins) == {a \in {ins.dst, ins.src1, ins.src2} : a.a = "ref"}
\* where the position of the instruction that writes temporary t lies
WrittenAt(code, t) ==
  {code.instrs[k].at : k \in {j \in Instrs(code) : code.instrs[j].dst = TacTemp(t)}}
\* the DIM calls of the designator at p itself, and the number each passes
DimCalls(code, p) ==
  {k \in Under(code, p \o <<900>>) :
     /\ code.instrs[k].op = "opCall" /\ code.instrs[k].src1.sym = "DIM"
     /\ \A j \in (Len(p) + 2)..Len(code.instrs[k].at) : code.instrs[k].at[j] # 900}
NumbersPassed(code, k) ==
  {code.instrs[j].src1.v :
     j \in {i \in Own(code, code.instrs[k].at) :
              code.instrs[i].op = "opParam" /\ code.instrs[i].dst.v = 1}}

\* C5: the base of a reference the emitted code uses holds, when a run
\* uses it, ptr + ((...(i_0 * DIM(ptr, 2) + i_1) * DIM(ptr, 3) + ...
\* + i_(R-1)) * S) + DOFS(ptr) for the designator's R indices and element
\* size S; and the code of a designator calls DIM R - 1 times, the k-th
\* call with dimension number k + 1, so never for the innermost dimension
\* and not at all when R = 1.
C5_ElementAddress ==
  /\ Running =>
       \A a \in RefsOf(cb.instrs[run.ip]) :
         /\ a.base.a = "temp"
         /\ \E d \in ArrayDesignators(ast) :
              /\ WrittenAt(cb, a.base.n) = {d.p \o <<900>>}
              /\ run.temps[a.base.n] = ElementAddress(d.n, run.store)
  /\ Lowered =>
       \A d \in ArrayDesignators(ast) :
         /\ Cardinality(DimCalls(cb, d.p)) = Len(d.n.idx) - 1
         /\ \A k \in DimCalls(cb, d.p) :
              NumbersPassed(cb, k) = {Cardinality({j \in DimCalls(cb, d.p) : j <= k}) + 1}

\* a run uses an element of the rank 3 array whose three indices are 1, 1
\* and 2: ptr + ((1 * 5 + 1) * 7 + 2) * 1 + 16
C5_Witness ==
  /\ Running
  /\ \E a \in RefsOf(cb.instrs[run.ip]) :
       /\ a.sym = "a3"
       /\ run.temps[a.base.n] = AddrOf("a3") + 44 + 16
  /\ Cardinality(DimCalls(cb, <<101, 0>>) \cup DimCalls(cb, <<101, 1>>)) = 2

\* the instructions of the two sides of the assignment at p, and its own
Lhs(code, p) == Under(code, p \o <<0>>)
Rhs(code, p) == Under(code, p \o <<1>>)
Assigns(sc) == {n \in AllNodes(sc, <<>>) : n.n.node = "StatAssign"}
\* after both sides: exactly one Assign, then the Goto to the next label
AssignThenGoto(code, p) ==
  \E a \in Own(code, p) :
    /\ Own(code, p) = {a, a + 1}
    /\ \A k \in Lhs(code, p) \cup Rhs(code, p) : k < a
    /\ code.instrs[a].op = "opAssign"
    /\ code.instrs[a + 1].op = "opGoto" /\ code.instrs[a + 1].dst.role = "next"

\* C6 as the specification has it: the lowering of an assignment adds the
\* instructions of its right-hand side before any of its left-hand side,
\* then exactly one Assign, then Goto next.
C6_RhsBeforeLhs ==
  Lowered =>
    \A n \in Assigns(ast) :
      /\ \A l \in Lhs(cb, n.p) : \A r \in Rhs(cb, n.p) : r < l
      /\ AssignThenGoto(cb, n.p)

\* C6, amended: the lowering of an assignment adds the instructions of its
\* left-hand side (the address computation) before any of its right-hand
\* side, then exactly one Assign, then Goto next.
C6_LhsBeforeRhs ==
  Lowered =>
    \A n \in Assigns(ast) :
      /\ \A l \in Lhs(cb, n.p) : \A r \in Rhs(cb, n.p) : l < r
      /\ AssignThenGoto(cb, n.p)

\* an assignment whose two sides both need instructions has been lowered
C6_Witness ==
  /\ pc = "lowered" /\ ~cb.aborted
  /\ \E n \in Assigns(ast) : Lhs(cb, n.p) # {} /\ Rhs(cb, n.p) # {}

\* C1: a run stands at an instruction of the right operand of an And only
\* where the left operand is true, and of an Or only where it is false.
C1_ShortCircuit ==
  Running =>
    \A n \in AndOrs(ast) :
      IsPrefix(n.p \o <<1>>, cb.instrs[run.ip].at) =>
        Eval(n.n.left, run.store) = (IF n.n.oper = "opAnd" THEN 1 ELSE 0)

\* the labels that directly follow code lowered in jumping mode
AfterJumping == {"ifLabel", "body", "trueLabel", "midLabel"}

\* C8: a run enters the instruction that follows the jumping-mode code of
\* a condition, of an operand or of a materialised value by a jump only,
\* never by falling through.
C8_JumpingNeverFallsThrough ==
  (/\ Running
   /\ cb.instrs[run.ip].op = "opLabel"
   /\ cb.instrs[run.ip].dst.role \in AfterJumping) => run.via = "jump"

ListFails(list, p, base) ==
  \E i \in 1..Len(list) : ~StatTypeCheck(list[i], p \o <<base + i>>).ok
\* the check of the statement n returns false, and so does the scope's when
\* n is one of its own statements
Rejected(n) == ~StatTypeCheck(n.n, n.p).ok /\ (Len(n.p) = 1 => ~tc.ok)

\* C7: the check of an If returns false when a statement of its then-list
\* or of its else-list fails its own check, at whatever position, and the
\* check of a While when a statement of its body does; both return false
\* when the type of the condition does not match bool.
C7_IfWhileChildrenChecked ==
  Checked =>
    \A n \in AllNodes(ast, <<>>) :
      /\ (/\ n.n.node = "StatIf"
          /\ \/ ListFails(n.n.ifBody, n.p, 100)
             \/ ListFails(n.n.elseBody, n.p, 200)
             \/ ~Match(GetType(n.n.cond), TBool)) => Rejected(n)
      /\ (/\ n.n.node = "StatWhile"
          /\ \/ ListFails(n.n.body, n.p, 100)
             \/ ~Match(GetType(n.n.cond), TBool)) => Rejected(n)

(***************************************************************************)
(* Properties of the lowering of statements.                               *)
(***************************************************************************)
Breaks(sc) == {n \in ScopeNodes(sc) : n.n.node = "StatBreak"}
Whiles(sc) == {n \in ScopeNodes(sc) : n.n.node = "StatWhile"}
Ifs(sc) == {n \in ScopeNodes(sc) : n.n.node = "StatIf"}
\* the loops around the node at p, and the innermost of them
Enclosing(sc, p) == {w \in Whiles(sc) : IsPrefix(w.p, p) /\ w.p # p}
Innermost(sc, p) ==
  {w \in Enclosing(sc, p) : \A v \in Enclosing(sc, p) : Len(v.p) <= Len(w.p)}
\* where the node at p adds the label it created under the name role
LabelAt(code, p, role) ==
  {k \in Own(code, p) : code.instrs[k].op = "opLabel" /\ code.instrs[k].dst.role = role}

\* C21: the lowering of a Break inside a While adds exactly one instruction,
\* a Goto to the loopEnd label of the innermost While around it, whatever
\* Ifs and Whiles lie between and around them, and so no Goto to its next
\* label; each While adds its loopEnd label once, right after its Goto back
\* to its head label.
C21_BreakLeavesInnermostLoop ==
  JustLowered =>
    /\ \A n \in Breaks(ast) :
         /\ Cardinality(Innermost(ast, n.p)) = 1
         /\ \A w \in Innermost(ast, n.p) :
              \E k \in Own(cb, n.p) :
                /\ Own(cb, n.p) = {k}
                /\ cb.instrs[k].op = "opGoto"
                /\ cb.instrs[k].dst.role = "loopEnd"
                /\ \E j \in LabelAt(cb, w.p, "loopEnd") : cb.instrs[j].dst = cb.instrs[k].dst
    /\ \A w \in Whiles(ast) :
         \E j \in LabelAt(cb, w.p, "loopEnd") :
           /\ LabelAt(cb, w.p, "loopEnd") = {j}
           /\ j > 1 /\ cb.instrs[j - 1].op = "opGoto" /\ cb.instrs[j - 1].at = w.p
           /\ \E h \in LabelAt(cb, w.p, "re") :
                /\ cb.instrs[h].dst = cb.instrs[j - 1].dst
                /\ \A k \in Under(cb, w.p) : h <= k

\* a loop inside a loop has been lowered, with a Break two Ifs deep in the
\* inner loop and another in the outer loop
C21_Witness ==
  /\ pc = "lowered" /\ ~cb.aborted
  /\ \E n \in Breaks(ast) : \E m \in Breaks(ast) :
       /\ Cardinality(Enclosing(ast, n.p)) = 2
       /\ Cardinality({i \in Ifs(ast) : IsPrefix(i.p, n.p)}) = 2
       /\ Cardinality(Enclosing(ast, m.p)) = 1
       /\ Own(cb, n.p) # {} /\ Own(cb, m.p) # {}

\* the statements that end with a jump to their next label
Continuing == {"StatAssign", "StatCall", "StatReturn", "StatIf", "StatWhile"}
Last(S) == CHOOSE k \in S : \A j \in S : j <= k
\* the last instruction of the statement at p is Goto next, next being the
\* label that the list holding the statement created before it and adds
\* right after it
EndsWithGotoNext(code, p) ==
  /\ Under(code, p) # {}
  /\ LET k == Last(Under(code, p)) IN
     /\ code.instrs[k].op = "opGoto" /\ code.instrs[k].at = p
     /\ code.instrs[k].dst.role = "next"
     /\ k < Len(code.instrs)
     /\ code.instrs[k + 1] = LabelInstr(code.instrs[k].dst, Front(p))
     /\ \A j \in Under(code, p) :
          code.instrs[j].op = "opLabel" => code.instrs[j].dst.n > code.instrs[k].dst.n

\* C23: the last instruction of the lowering of an Assign, a Call, a
\* Return, an If and a While is a Goto to the next label it was given, a
\* label created by the list that holds the statement and not inside the
\* statement, and that list adds the label right after the statement's
\* instructions; the scope gives its own statements no end label, so that
\* the lowering of a scope with a Break outside every loop does not
\* complete.
C23_EndsWithGotoNext ==
  /\ JustLowered =>
       \A n \in ScopeNodes(ast) : n.n.node \in Continuing => EndsWithGotoNext(cb, n.p)
  /\ (pc = "lowered" /\ \E n \in Breaks(ast) : Enclosing(ast, n.p) = {}) => cb.aborted

\* a loop has been lowered that holds an If with a Return in one body and
\* an assignment in the other
C23_Witness ==
  /\ pc = "lowered" /\ ~cb.aborted
  /\ \E w \in Whiles(ast) : \E i \in Ifs(ast) : \E r \in ScopeNodes(ast) : \E a \in ScopeNodes(ast) :
       /\ IsPrefix(w.p, i.p) /\ Front(r.p) = i.p /\ Front(a.p) = i.p
       /\ r.n.node = "StatReturn" /\ a.n.node = "StatAssign"
       /\ Own(cb, r.p) # {} /\ Own(cb, a.p) # {}

\* the instructions of the statements of a list of the node at p
Body(code, p, base, len) == UNION {Under(code, p \o <<base + i>>) : i \in 1..len}
\* instruction k is a label that the list of the node at p created for one
\* of its statements
IsNextLabel(code, p, k) ==
  /\ k \in Instrs(code)
  /\ code.instrs[k].op = "opLabel" /\ code.instrs[k].dst.role = "next"
  /\ code.instrs[k].at = p
\* the statements of a list lie in the list's order, each followed by its
\* own label, and fill the instructions after lo and before hi
ListBetween(code, p, base, len, lo, hi) ==
  /\ \A i \in 1..len :
       /\ Under(code, p \o <<base + i>>) # {}
       /\ IsNextLabel(code, p, Last(Under(code, p \o <<base + i>>)) + 1)
       /\ \A k \in Under(code, p \o <<base + i>>) :
            /\ lo < k /\ k < hi
            /\ \A j \in Body(code, p, base, i - 1) : j < k
  /\ \A k \in (lo + 1)..(hi - 1) :
       \/ k \in Body(code, p, base, len)
       \/ IsNextLabel(code, p, k) /\ k - 1 \in Body(code, p, base, len)
\* the branches of the code at p that leave it go to one of the labels
LeavesTo(code, p, labels) ==
  \A k \in Under(code, p) \cap Branches(code) :
    \/ code.instrs[k].dst \in labels
    \/ \E j \in Under(code, p) : code.instrs[j] = LabelInstr(code.instrs[k].dst, code.instrs[j].at)

\* the order of the instructions of the If n: the condition, leaving to the
\* then and the else label only; the then label; the then-list; Goto end;
\* the else label; the else-list; the end label; Goto next
IfInOrder(code, n) ==
  \E t \in LabelAt(code, n.p, "ifLabel") :
  \E e \in LabelAt(code, n.p, "elseLabel") :
  \E d \in LabelAt(code, n.p, "endLabel") :
    /\ LabelAt(code, n.p, "ifLabel") = {t}
    /\ LabelAt(code, n.p, "elseLabel") = {e}
    /\ LabelAt(code, n.p, "endLabel") = {d}
    /\ \A k \in Under(code, n.p) : k < t <=> k \in Under(code, n.p \o <<0>>)
    /\ LeavesTo(code, n.p \o <<0>>, {code.instrs[t].dst, code.instrs[e].dst})
    /\ t < e - 1
    /\ ListBetween(code, n.p, 100, Len(n.n.ifBody), t, e - 1)
    /\ code.instrs[e - 1] = Goto(code.instrs[d].dst, n.p)
    /\ e < d
    /\ ListBetween(code, n.p, 200, Len(n.n.elseBody), e, d)
    /\ d + 1 = Last(Under(code, n.p))
    /\ code.instrs[d + 1].op = "opGoto" /\ code.instrs[d + 1].dst.role = "next"

\* C24: the lowering of an If adds the jumping-mode code of its condition
\* for the then and the else label, the then label, the then-list with a
\* label of its own after each statement, Goto end, the else label, the
\* else-list likewise, the end label and Goto next, in this order; and a
\* run comes to the then label only where the condition is true and to the
\* else label only where it is false, so that it runs the one body and not
\* the other, empty bodies included.
C24_IfBranches ==
  /\ JustLowered => \A n \in Ifs(ast) : IfInOrder(cb, n)
  /\ Running =>
       \A n \in Ifs(ast) :
         /\ run.ip \in LabelAt(cb, n.p, "ifLabel") => Eval(n.n.cond, run.store) = 1
         /\ run.ip \in LabelAt(cb, n.p, "elseLabel") => Eval(n.n.cond, run.store) = 0

\* the order alone
IfsInOrder == JustLowered => \A n \in Ifs(ast) : IfInOrder(cb, n)
\* the branches, for conditions other than a dereferenced pointer
IfBranchesButDeref ==
  Running =>
    \A n \in Ifs(ast) :
      (\A m \in ExprNodes(n.n.cond, n.p \o <<0>>) : m.n.node # "SpecialOp") =>
        /\ run.ip \in LabelAt(cb, n.p, "ifLabel") => Eval(n.n.cond, run.store) = 1
        /\ run.ip \in LabelAt(cb, n.p, "elseLabel") => Eval(n.n.cond, run.store) = 0

\* the Breaks of the scope's statements that no loop encloses
LooseBreaks(sc) == {n \in Breaks(sc) : Enclosing(sc, n.p) = {}}

\* C27: the check of a Break passes wherever the Break stands, and the
\* lowering of a type-clean scope with a Break that no While encloses, in
\* the scope's list or in If bodies only, stops at such a Break on its
\* missing end label: the Break and the statements of the scope after it
\* add no instruction, no Goto among them.
C27_BreakOutsideLoopAborts ==
  /\ \A n \in AllNodes(ast, <<>>) : n.n.node = "StatBreak" => StatTypeCheck(n.n, n.p) = Pass
  /\ (pc = "lowered" /\ LooseBreaks(ast) # {}) =>
       /\ tc.ok /\ cb.aborted
       /\ \A n \in LooseBreaks(ast) : Under(cb, n.p) = {}
       /\ \A n \in LooseBreaks(ast) : \A m \in ScopeNodes(ast) :
            (Len(m.p) = 1 /\ m.p[1] > n.p[1]) => Under(cb, m.p) = {}

\* a type-clean scope whose Break stands two Ifs deep and in no loop has
\* been handed to the lowering, which has stopped after the instructions
\* of the statement before it
C27_Witness ==
  /\ pc = "lowered" /\ tc.ok /\ cb.aborted
  /\ cb.instrs # <<>>
  /\ \E n \in LooseBreaks(ast) :
       /\ Cardinality({i \in Ifs(ast) : IsPrefix(i.p, n.p)}) = 2
       /\ Under(cb, n.p) = {}

(***************************************************************************)
(* Properties of the lowering of calls.                                    *)
(***************************************************************************)
\* the expressions the lowering visits below e, at the positions it gives
\* them: below an array designator those of its address tree
RECURSIVE Visited(_, _)
Visited(e, p) ==
  {[p |-> p, n |-> e]} \cup
  CASE e.node = "ArrayDesignator" -> Visited(AddressExpr(e), p \o <<900>>)
    [] e.node = "BinaryOp" -> Visited(e.left, p \o <<0>>) \cup Visited(e.right, p \o <<1>>)
    [] e.node \in {"UnaryOp", "SpecialOp"} -> Visited(e.operand, p \o <<0>>)
    [] e.node = "FunctionCall" ->
         UNION {Visited(e.arg[i], p \o <<i - 1>>) : i \in 1..Len(e.arg)}
    [] OTHER -> {}
\* the expressions the statements of the lowered scope hold
StatRoots(sc) ==
  {m \in ScopeNodes(sc) :
     /\ m.n.node \notin StatKinds
     /\ \E q \in ScopeNodes(sc) : q.n.node \in StatKinds /\ q.p = Front(m.p)}
LoweredCalls(sc) ==
  {m \in UNION {Visited(r.n, r.p) : r \in StatRoots(sc)} : m.n.node = "FunctionCall"}

ParamsOf(code, p) == {k \in Own(code, p) : code.instrs[k].op = "opParam"}
CallsOf(code, p) == {k \in Own(code, p) : code.instrs[k].op = "opCall"}
ParamOf(code, p, i) == {k \in ParamsOf(code, p) : code.instrs[k].dst = TacConst(i)}

\* the operand that holds the value of the expression e lowered at p
RECURSIVE ValueOf(_, _, _)
ValueOf(code, e, p) ==
  CASE e.node = "Constant" -> {TacConst(ToInt(e.value))}
    [] e.node = "Designator" -> {TacName(e.sym)}
    [] e.node = "UnaryOp" /\ e.oper = "opPos" -> ValueOf(code, e.operand, p \o <<0>>)
    [] e.node = "ArrayDesignator" ->
         {TacReference(code.instrs[k].dst, e.sym) :
            k \in {j \in Under(code, p) :
                     /\ code.instrs[j].dst.a = "temp"
                     /\ \A i \in Under(code, p) : i <= j}}
    [] OTHER ->
         {code.instrs[k].dst :
            k \in {j \in Own(code, p) :
                     code.instrs[j].dst.a = "temp" /\ code.instrs[j].op # "opLabel"}}

\* C22: the lowering of a call with n arguments adds Param n-1, ..., Param 0
\* in this order, Param i after the instructions of argument i (and these
\* after Param i+1) and with the operand that holds the value of argument
\* i, then exactly one Call of the procedure's symbol; the Call's
\* destination is a temporary, written by nothing else, when the return
\* type is not null, and null when it is, and no temporary of the block
\* is left without an instruction that writes it.
C22_ParamsThenCall ==
  JustLowered =>
    /\ \A c \in LoweredCalls(ast) :
         LET n == Len(c.n.arg) IN
         /\ Cardinality(ParamsOf(cb, c.p)) = n
         /\ \A i \in 0..(n - 1) :
              \E k \in ParamOf(cb, c.p, i) :
                /\ ParamOf(cb, c.p, i) = {k}
                /\ \A j \in Under(cb, c.p \o <<i>>) : j < k
                /\ \A j \in ParamOf(cb, c.p, i + 1) :
                     j < k /\ \A a \in Under(cb, c.p \o <<i>>) : j < a
                /\ ValueOf(cb, c.n.arg[i + 1], c.p \o <<i>>) = {cb.instrs[k].src1}
         /\ \E k \in CallsOf(cb, c.p) :
              /\ CallsOf(cb, c.p) = {k}
              /\ cb.instrs[k].src1 = TacName(c.n.sym)
              /\ \A j \in ParamsOf(cb, c.p) : j < k
              /\ \A i \in 0..(n - 1) : \A j \in Under(cb, c.p \o <<i>>) : j < k
              /\ IF Match(TNull, GetType(c.n)) THEN cb.instrs[k].dst = NullAddr
                 ELSE /\ cb.instrs[k].dst.a = "temp"
                      /\ ValueOf(cb, c.n, c.p) = {cb.instrs[k].dst}
    /\ \A t \in 1..cb.ntemp : WrittenAt(cb, t) # {}

\* a call with three arguments has been lowered whose first argument is a
\* call, whose second is a call with a call as an argument and whose third
\* is an array element
C22_Witness ==
  /\ pc = "lowered" /\ ~cb.aborted
  /\ \E c \in LoweredCalls(ast) :
       /\ Len(c.n.arg) = 3
       /\ c.n.arg[1].node = "FunctionCall"
       /\ \E a \in LoweredCalls(ast) : a.p = c.p \o <<1, 2>> /\ Len(a.n.arg) = 1
       /\ c.n.arg[3].node = "ArrayDesignator"
       /\ \A i \in 0..2 : ParamOf(cb, c.p, i) # {}

\* the number of Params the call that added instruction k has added
NParams(code, k) == Cardinality(ParamsOf(code, code.instrs[k].at))
\* the Params not yet consumed by a Call after the first k instructions,
\* the most recent last: a Call consumes as many as its call has added
RECURSIVE Pending(_, _)
Pending(code, k) ==
  IF k = 0 THEN <<>>
  ELSE LET ins == code.instrs[k]
           before == Pending(code, k - 1)
       IN CASE ins.op = "opParam" -> Append(before, k)
            [] ins.op = "opCall" -> DropArgs(before, NParams(code, k))
            [] OTHER -> before
\* the calls the lowering visits in the arguments of the call c
CallsInside(sc, c) ==
  {a \in LoweredCalls(sc) : IsPrefix(c.p, a.p) /\ a.p # c.p}
\* the instructions from the first Param of the call at p to its Call
Group(code, p) == ParamsOf(code, p) \cup CallsOf(code, p)

\* C26: in the emitted stream the Params and Calls are well nested: at the
\* Call of a call with n Params the n most recent Params that no earlier
\* Call has consumed are Param n-1, ..., Param 0 of this very call,
\* Param 0 the most recent; the Params and the Call of a call inside an
\* argument lie among the instructions of the outer call, before its Call,
\* with no Param of the outer call between them; and no Param is left
\* over at the end of the stream.
C26_ParamsWellNested ==
  JustLowered =>
    /\ \A k \in Instrs(cb) :
         cb.instrs[k].op = "opCall" =>
           LET n == NParams(cb, k)
               pending == Pending(cb, k - 1)
           IN /\ Len(pending) >= n
              /\ \A i \in 0..(n - 1) :
                   /\ cb.instrs[pending[Len(pending) - i]].dst = TacConst(i)
                   /\ cb.instrs[pending[Len(pending) - i]].at = cb.instrs[k].at
    /\ Pending(cb, Len(cb.instrs)) = <<>>
    /\ \A c \in LoweredCalls(ast) : \A a \in CallsInside(ast, c) :
         /\ Group(cb, a.p) \subseteq Under(cb, c.p)
         /\ \A g \in Group(cb, a.p) : \A k \in CallsOf(cb, c.p) : g < k
         /\ \A j \in ParamsOf(cb, c.p) :
              (\A g \in Group(cb, a.p) : j < g) \/ (\A g \in Group(cb, a.p) : g < j)

\* a call has been lowered whose last Param is followed by the Params and
\* the Call of a call in an earlier argument, which itself holds a call
C26_Witness ==
  /\ pc = "lowered" /\ ~cb.aborted
  /\ \E c \in LoweredCalls(ast) : \E a \in CallsInside(ast, c) : \E b \in CallsInside(ast, a) :
       /\ Len(c.n.arg) = 3 /\ Len(a.n.arg) = 3
       /\ \E j \in ParamOf(cb, c.p, 2) : \A g \in Group(cb, a.p) \cup Group(cb, b.p) : j < g
       /\ \E j \in ParamOf(cb, a.p, 2) : \A g \in Group(cb, b.p) : g < j

(***************************************************************************)
(* Properties of the lowering of arithmetic.                               *)
(***************************************************************************)
LoweredArith(sc) ==
  {m \in UNION {Visited(r.n, r.p) : r \in StatRoots(sc)} :
     m.n.node = "BinaryOp" /\ m.n.oper \in ArithOps}
\* the temporaries the instructions in S write
TempsWritten(code, S) ==
  {code.instrs[k].dst.n : k \in {j \in S : code.instrs[j].dst.a = "temp"
                                           /\ code.instrs[j].op # "opLabel"}}

\* C25: the value-mode lowering of an arithmetic operation adds the
\* instructions of its left operand, then those of its right operand, then
\* one instruction of its operator on the operands' values into a
\* temporary created after every temporary of the operands; x := 1 + 2 * 3
\* gives t1 := 2 * 3, t2 := 1 + t1, x := t2 and, after them, only the Goto
\* to the statement's label and that label.
C25_ArithmeticPostOrder ==
  JustLowered =>
    /\ \A m \in LoweredArith(ast) :
         \E k \in Own(cb, m.p) :
           /\ Own(cb, m.p) = {k}
           /\ \A l \in Under(cb, m.p \o <<0>>) : \A r \in Under(cb, m.p \o <<1>>) : l < r
           /\ \A j \in Under(cb, m.p) : j <= k
           /\ cb.instrs[k].op = m.n.oper
           /\ ValueOf(cb, m.n.left, m.p \o <<0>>) = {cb.instrs[k].src1}
           /\ ValueOf(cb, m.n.right, m.p \o <<1>>) = {cb.instrs[k].src2}
           /\ cb.instrs[k].dst.a = "temp"
           /\ \A t \in TempsWritten(cb, Under(cb, m.p) \ {k}) : t < cb.instrs[k].dst.n
    /\ ast = OnePlusTwoTimesThree =>
         cb.instrs =
           <<TacInstr("opMul", TacTemp(1), TacConst(2), TacConst(3), <<101, 1, 1>>),
             TacInstr("opAdd", TacTemp(2), TacConst(1), TacTemp(1), <<101, 1>>),
             TacInstr("opAssign", TacName("x"), TacTemp(2), NullAddr, <<101>>),
             Goto(TacLabel(1, "next"), <<101>>),
             LabelInstr(TacLabel(1, "next"), <<>>)>>

\* x := 1 + 2 * 3 has been lowered
C25_Witness ==
  /\ pc = "lowered" /\ ~cb.aborted
  /\ ast = OnePlusTwoTimesThree
  /\ \E m \in LoweredArith(ast) : m.p = <<101, 1, 1>> /\ Own(cb, m.p) # {}

(***************************************************************************)
(* Properties of the construction of nodes.                                *)
(***************************************************************************)
Aborted == pc = "aborted"
OnDesignator == ast.node = "ArrayDesignator" /\ call.op # "CAstArrayDesignator"

\* C15: an ArrayDesignator is Open (not _done) when constructed; it becomes
\* Closed by IndicesComplete() only and never Open again; AddIndex on a
\* Closed one aborts and adds no index, IndicesComplete() on a Closed one
\* aborts, and the type check of an Open one aborts.
C15_OpenThenClosed ==
  /\ call.op = "CAstArrayDesignator" => ~ast.done /\ ast.idx = <<>>
  /\ OnDesignator =>
       /\ call.done => ast.done
       /\ (~call.done /\ ast.done) => call.op = "IndicesComplete"
       /\ (call.op = "AddIndex" /\ call.done) => Aborted /\ Len(ast.idx) = call.nidx
       /\ (call.op = "AddIndex" /\ ~call.done) => ~Aborted /\ Len(ast.idx) = call.nidx + 1
       /\ (call.op = "IndicesComplete" /\ call.done) => Aborted
       /\ (call.op = "TypeCheck" /\ ~call.done) => Aborted /\ tc.abort

\* AddIndex on a Closed designator of two indices has aborted, and the
\* designator still has its two indices
C15_Witness ==
  /\ OnDesignator /\ call.op = "AddIndex" /\ call.done /\ call.nidx = 2
  /\ Aborted /\ ast.done /\ Len(ast.idx) = 2

Readers == {"TypeCheck", "CAstScope::TypeCheck", "GetType", "ToTac", "ToTacJump"}

\* C16: the type check, GetType and the lowering, in value mode and in
\* jumping mode, of a Closed ArrayDesignator leave its index list as it was:
\* the number of indices and the type are the same after the call as
\* before, also for a designator with fewer indices than its array's rank.
C16_ClosedIsImmutable ==
  (OnDesignator /\ call.op \in Readers /\ call.done /\ ~Aborted) =>
    (Len(ast.idx) = call.nidx /\ GetType(ast) = call.type)

\* C19: the type check of a scope ends with a result, false when a nested
\* check fails internally (the check of an ArrayDesignator that is still
\* Open), and never with the process aborted.
C19_ScopeCheckNeverAborts ==
  (OnDesignator /\ call.op = "CAstScope::TypeCheck") =>
    (~Aborted /\ ~tc.abort /\ (~call.done => ~tc.ok))

\* C20: the construction of a SpecialOp is accepted exactly when the tag is
\* Address, Deref or Cast, the operand is not NULL, and a type is given
\* exactly when the tag is Cast; any other construction aborts.
C20_SpecialOpContract ==
  call.op = "CAstSpecialOp" =>
    (~Aborted <=> /\ call.oper \in {"opAddress", "opDeref", "opCast"}
                  /\ call.e # NoNode
                  /\ (call.type # NoType <=> call.oper = "opCast"))

(***************************************************************************)
(* Properties of the string constants.                                     *)
(***************************************************************************)
Names == <<"_str_1", "_str_2", "_str_3", "_str_4">>

\* C17: the n-th string constant constructed owns the symbol named _str_<n>,
\* n counting from 1, so that no two string constants share a name; the
\* symbol is in the symbol table of the scope given to the constructor, and
\* its name is what the constant's lowering in value mode returns.
C17_StringSymbols ==
  /\ strIdx = Len(strs)
  /\ \A n \in 1..Len(strs) :
       /\ strs[n].sym.name = Names[n]
       /\ strs[n].sym \in symtab[strs[n].scope]
       /\ \A m \in 1..Len(strs) : m # n => strs[m].sym.name # strs[n].sym.name
  /\ call.op = "CAstStringConstant" => strs[Len(strs)].scope = call.s
  /\ call.op = "ToTac" => call.addr = TacName(Names[call.n])

\* the second constant, constructed for the procedure after one for the
\* module, is lowered to the name _str_2
C17_Witness ==
  /\ Len(strs) = 2 /\ strs[1].scope = "module" /\ strs[2].scope = "proc"
  /\ call.op = "ToTac" /\ call.n = 2 /\ call.addr = TacName("_str_2")
  /\ {o.name : o \in symtab["proc"]} = {"_str_2"}

\* C18: the array type of a string constant's symbol has as many elements
\* as the unescaped literal has characters, plus one, also when one of those
\* characters, not the last, is the zero byte.
C18_LengthOfUnescaped ==
  \A n \in 1..Len(strs) :
    /\ strs[n].sym.type = strs[n].type
    /\ strs[n].type = TArr(Len(unescape(strs[n].value)) + 1, TChar)
====
